---- MODULE Spec2Model ----
(***************************************************************************)
(* N1O1 nitrite dynamics simulator (src/simulation_core.py).               *)
(*                                                                         *)
(* Numbers.  Python floats are modelled as decimal fixed point.  A time,   *)
(* a rate constant or a Runge-Kutta coefficient x is the integer x * ONE.  *)
(* A concentration (uM), a dose (mg) or a flux (uM/h) is kept in units of  *)
(* 10^-6 (YU per unit); inside the ODE solver it carries four more         *)
(* decimal digits as a pair <<hi, lo>> = hi + lo / W units, 0 <= lo < W.   *)
(* Every intermediate value fits a 32-bit integer; magnitudes saturate at  *)
(* SAT, and a solver step that saturates is rejected.                      *)
(***************************************************************************)
EXTENDS Integers, Sequences, FiniteSets, TLC

ONE == 10^8
YU  == 10^6
W   == 10^4
SAT == 10^9

Sgn(a) == IF a < 0 THEN -1 ELSE 1
Abs(a) == IF a < 0 THEN -a ELSE a
Min(a, b) == IF a < b THEN a ELSE b
Max(a, b) == IF a > b THEN a ELSE b
\* b, once a has been computed (Python computes a statement's operands
\* before the statement that uses them)
Then(a, b) == <<a, b>>[2]
Clamp(v) == IF v > SAT THEN SAT ELSE IF v < -SAT THEN -SAT ELSE v

\* floor(a * c / ONE) for a, c >= 0, saturating at SAT
UMul(a, c) ==
  LET a1 == a \div W
      a0 == a % W
      c1 == c \div W
      c0 == c % W
  IN IF a1 > 0 /\ c1 > SAT \div a1 THEN SAT
     ELSE LET x == a1 * c0
              y == a0 * c1
              v == a1 * c1 + x \div W + y \div W
                     + ((x % W) + (y % W) + (a0 * c0) \div W) \div W
          IN IF v > SAT THEN SAT ELSE v

\* the four decimal digits of a * c / ONE that UMul drops
UMulFrac(a, c) ==
  LET a1 == a \div W
      a0 == a % W
      c1 == c \div W
      c0 == c % W
  IN (((a1 * c0) % W) + ((a0 * c1) % W) + (a0 * c0) \div W) % W

\* a * c / ONE, truncated toward zero
Mul(a, c) == Sgn(a) * Sgn(c) * UMul(Abs(a), Abs(c))

\* long division: n <= 8 further decimal digits of r / b after acc, r < b
UDivLoop(r, b, n, acc) ==
  LET r1 == (r * 10) % b
      r2 == (r1 * 10) % b
      r3 == (r2 * 10) % b
      r4 == (r3 * 10) % b
      r5 == (r4 * 10) % b
      r6 == (r5 * 10) % b
      r7 == (r6 * 10) % b
      rs == <<r, r1, r2, r3, r4, r5, r6, r7>>
  IN Then(rs, acc * (10^n)
              + ((rs[1] * 10) \div b) * 10^(n - 1)
              + (IF n > 1 THEN ((rs[2] * 10) \div b) * 10^(n - 2) ELSE 0)
              + (IF n > 2 THEN ((rs[3] * 10) \div b) * 10^(n - 3) ELSE 0)
              + (IF n > 3 THEN ((rs[4] * 10) \div b) * 10^(n - 4) ELSE 0)
              + (IF n > 4 THEN ((rs[5] * 10) \div b) * 10^(n - 5) ELSE 0)
              + (IF n > 5 THEN ((rs[6] * 10) \div b) * 10^(n - 6) ELSE 0)
              + (IF n > 6 THEN ((rs[7] * 10) \div b) * 10^(n - 7) ELSE 0)
              + (IF n > 7 THEN (rs[8] * 10) \div b ELSE 0))

\* floor(a * 10^n / b) for a >= 0, b > 0, saturating at SAT
RECURSIVE UDivN(_, _, _)
UDivN(a, b, n) ==
  IF b > 2 * ONE THEN UDivN(a \div 10, b \div 10, n)
  ELSE IF a \div b >= SAT \div (10^n) THEN SAT
  ELSE UDivLoop(a % b, b, n, a \div b)

UDiv(a, b) == UDivN(a, b, 8)

\* a / b as fixed point, truncated toward zero
Div(a, b) == Sgn(a) * Sgn(b) * UDiv(Abs(a), Abs(b))

Square(u) == UMul(u, u)
Pow5(u) == UMul(Square(Square(u)), u)

\* acc with its next base-16 digit: the largest acc + c * p whose square
\* (fifth power) is at most z
SqrtDigit(z, acc, p) ==
  acc + p * Cardinality({c \in 1..15 : Square(acc + c * p) <= z})
Root5Digit(z, acc, p) ==
  acc + p * Cardinality({c \in 1..15 : Pow5(acc + c * p) <= z})

\* square root of a fixed-point z, rounded down (z < 7)
Sqrt(z) ==
  LET m6 == SqrtDigit(z, 0, 16^6)
      m5 == SqrtDigit(z, m6, 16^5)
      m4 == SqrtDigit(z, m5, 16^4)
      m3 == SqrtDigit(z, m4, 16^3)
      m2 == SqrtDigit(z, m3, 16^2)
      m1 == SqrtDigit(z, m2, 16)
  IN Then(<<z, m6, m5, m4, m3, m2, m1>>, SqrtDigit(z, m1, 1))

\* fifth root of a fixed-point z, rounded down (z < 138)
Root5(z) ==
  LET m6 == Root5Digit(z, 0, 16^6)
      m5 == Root5Digit(z, m6, 16^5)
      m4 == Root5Digit(z, m5, 16^4)
      m3 == Root5Digit(z, m4, 16^3)
      m2 == Root5Digit(z, m3, 16^2)
      m1 == Root5Digit(z, m2, 16)
  IN Then(<<z, m6, m5, m4, m3, m2, m1>>, Root5Digit(z, m1, 1))

\* sqrt(sum(r[i]^2) / 3) * m for the ratios r = v / m
NormOf(m, r) ==
  Then(r, UMul(m, Sqrt((Square(r[1]) + Square(r[2]) + Square(r[3])) \div 3)))

\* root-mean-square norm of three non-negative integers (scipy's norm(x))
Largest(v) == Max(v[1], Max(v[2], v[3]))
Norm3(v) ==
  IF Largest(v) = 0 THEN 0
  ELSE NormOf(Largest(v), <<UDiv(v[1], Largest(v)), UDiv(v[2], Largest(v)),
                            UDiv(v[3], Largest(v))>>)

\* exp(-x) for a fixed-point 0 <= x <= 4: the Taylor series
\* 1 - z + z^2/2 - ... + z^6/720 at z = x/16 by Horner's rule, squared 4 times
Exp(x) ==
  LET z  == x \div 16
      t5 == ONE - z \div 6
      t4 == ONE - UMul(z, t5) \div 5
      t3 == ONE - UMul(z, t4) \div 4
      t2 == ONE - UMul(z, t3) \div 3
      t1 == ONE - UMul(z, t2) \div 2
      e1 == ONE - UMul(z, t1)
      e2 == Square(e1)
      e4 == Square(e2)
      e8 == Square(e4)
  IN Then(<<t5, t4, t3, t2, t1, e1, e2, e4, e8>>, Square(e8))

(***************************************************************************)
(* Two-limb concentrations                                                 *)
(***************************************************************************)
ZP == <<0, 0>>
Norm2(hi, lo) == <<Clamp(hi + (lo \div W)), lo % W>>
Neg(p) == IF p[2] = 0 THEN <<-p[1], 0>> ELSE <<-p[1] - 1, W - p[2]>>
IsNeg(p) == p[1] < 0
AbsP(p) == IF IsNeg(p) THEN Neg(p) ELSE p
\* a magnitude of SAT stands for a non-finite float: it absorbs what is added
NonFinite(p) == p[1] >= SAT \/ p[1] <= -SAT
AddP(p, q) ==
  IF NonFinite(p) THEN p
  ELSE IF NonFinite(q) THEN q
  ELSE Norm2(p[1] + q[1], p[2] + q[2])
SubP(p, q) == AddP(p, Neg(q))
UMulP(p, c) == Norm2(UMul(p[1], c), UMulFrac(p[1], c) + UMul(p[2], c))
WithSign(r, negative) == IF negative THEN Neg(r) ELSE r
MulP(p, c) ==
  IF c = 0 THEN ZP
  ELSE WithSign(IF NonFinite(p) THEN <<SAT, 0>> ELSE UMulP(AbsP(p), Abs(c)),
                IsNeg(p) # (c < 0))
\* a / sh in units of 1 / W, saturating, for a two-limb a >= 0
UFine(a, sh) ==
  IF a[1] \div sh >= SAT \div W THEN SAT
  ELSE ((a[1] \div sh) * W) + ((((a[1] % sh) * W) + a[2]) \div sh)
\* |p| / sh in units of 1 / W
Fine(p, sh) == UFine(AbsP(p), sh)

(***************************************************************************)
(* NODynamicsSimulator: rates, dose schedule and the ODE right-hand side   *)
(***************************************************************************)
DOSE_WINDOW        == 8300000     \* 0.083 h
K_PLASMA_TO_TISSUE == 5000000     \* 0.05
K_TISSUE_TO_PLASMA == 3000000     \* 0.03
K_RBC_TO_NO        == 1000000     \* 0.01
RBC_SHARE          == 50000000    \* k_plasma_to_rbc = k_rbc * 0.5
BASE_RBC_RATE      == 2000000     \* 0.02
HYPOXIA_WEIGHT     == 50000000    \* 0.5
RENAL_RATE         == 10000000    \* 0.1
NORMOXIA           == 97000000    \* oxygen_saturation = 0.97
ER_DISSOLUTION     == 30000000    \* 0.3
ER_FRACTION        == 70000000    \* 0.7
ER_CUTOFF          == 400000000   \* t < 4
TISSUE_SPLIT       == 50000000    \* baseline * 0.5
RBC_SPLIT          == 20000000    \* baseline * 0.2

\* 0.1 * (egfr / 60.0); egfr in mL/min
renal_clearance_rate(egfr) == Mul(RENAL_RATE, Div(egfr, 60))

\* base_rate * (1 - 0.5 * hypoxia_factor); rbc_count in cells/uL
rbc_scavenging_rate(rbc_count, oxygen_saturation) ==
  LET base_rate      == Mul(BASE_RBC_RATE, Div(rbc_count, 10^6))
      hypoxia_factor == ONE - oxygen_saturation
  IN Mul(base_rate, ONE - Mul(HYPOXIA_WEIGHT, hypoxia_factor))

\* a dose pulse that takes nitrite out of plasma
Pulse_negated(t, t0, amount) ==
  IF t0 <= t /\ t < t0 + DOSE_WINDOW THEN -Div(amount, DOSE_WINDOW) ELSE 0

Pulse_closed(t, t0, amount) ==
  IF t0 <= t /\ t <= t0 + DOSE_WINDOW THEN Div(amount, DOSE_WINDOW) ELSE 0

\* amount / 0.083 while t is in [t0, t0 + 0.083), else nothing
Pulse(t, t0, amount) ==
  IF t0 <= t /\ t < t0 + DOSE_WINDOW THEN Div(amount, DOSE_WINDOW) ELSE 0

RECURSIVE AdditionalInput(_, _)
AdditionalInput(t, doses) ==
  IF doses = <<>> THEN 0
  ELSE Pulse(t, Head(doses).time, Head(doses).amount)
       + AdditionalInput(t, Tail(doses))

dose_input(t, dose, t_IR, additional_doses) ==
  Pulse(t, t_IR, dose) + AdditionalInput(t, additional_doses)

\* a flux whose dose is scaled by peak / 4.0
InputFlux_peaked(self, t) ==
  dose_input(t, Mul(self.dose, Div(self.peak, 4 * ONE)), 0, self.additional_doses)

\* the flux the ODE adds to plasma at time t (dose pulses plus the
\* extended-release tail)
InputFlux(self, t) ==
  dose_input(t, Mul(self.dose, IF self.formulation = "extended-release"
                               THEN ER_DISSOLUTION ELSE ONE),
             0, self.additional_doses)
  + (IF self.formulation = "extended-release" /\ t < ER_CUTOFF
     THEN Mul(Mul(Mul(ER_FRACTION, self.dose), Exp(t \div 2)), ONE \div 4)
     ELSE 0)

\* the three derivatives from the flows between the compartments
Balance(input_flux, plasma_to_tissue, tissue_to_plasma, plasma_to_rbc, rbc_to_no, renal_clearance) ==
  Then(<<input_flux, plasma_to_tissue, tissue_to_plasma, plasma_to_rbc,
         rbc_to_no, renal_clearance>>,
       << SubP(SubP(SubP(AddP(<<input_flux, 0>>, tissue_to_plasma),
                         plasma_to_tissue), plasma_to_rbc), renal_clearance),
          SubP(plasma_to_tissue, tissue_to_plasma),
          SubP(plasma_to_rbc, rbc_to_no) >>)

\* y = <<plasma, tissue, rbc>>, each a two-limb concentration
no2_ode(self, t, y) ==
  Balance(InputFlux(self, t),
          MulP(y[1], K_PLASMA_TO_TISSUE),
          MulP(y[2], K_TISSUE_TO_PLASMA),
          MulP(y[1], Mul(self.k_rbc, RBC_SHARE)),
          MulP(y[3], K_RBC_TO_NO),
          MulP(y[1], self.k_clear))

(***************************************************************************)
(* scipy.integrate.solve_ivp(method='RK45', rtol=1e-6), atol = 1e-6        *)
(* (the default): Dormand-Prince 5(4) with scipy's step-size control and   *)
(* dense output, in fixed point.                                           *)
(***************************************************************************)
RK_C == <<0, 20000000, 30000000, 80000000, 88888889, 100000000>>
RK_A == << <<>>,
           <<20000000>>,
           <<7500000, 22500000>>,
           <<97777778, -373333333, 355555556>>,
           <<295259869, -1159579332, 982289285, -29080933>>,
           <<284627525, -1075757576, 890642272, 27840909, -27353130>> >>
RK_B == <<9114583, 0, 44923630, 65104167, -32237618, 13095238>>
\* error weights times 100: the estimate is kept in hundredths
RK_E == <<-12326389, 0, 42527703, -369791667, 508637972, -419047619, 250000000>>
RK_P == << <<100000000, -285358007, 307174346, -112701757>>,
           <<0, 0, 0, 0>>,
           <<0, 402313338, -624932157, 267542448>>,
           <<0, -373240196, 1006897059, -568552696>>,
           <<0, 255480383, -639911238, 352193237>>,
           <<0, -137442411, 327265775, -176728126>>,
           <<0, 138246893, -376493786, 238246893>> >>
SAFETY     == 90000000    \* 0.9
MIN_FACTOR == 20000000    \* 0.2
MAX_FACTOR == 10 * ONE
MIN_STEP   == 10          \* 10 * (spacing of representable times)

\* a numpy array: the values of f, computed once
Array(f) == f \o <<>>

V3Add(y, d) == Array([i \in 1..3 |-> AddP(y[i], d[i])])
V3Sub(y, d) == Array([i \in 1..3 |-> SubP(y[i], d[i])])
V3Mul(k, c) == Array([i \in 1..3 |-> MulP(k[i], c)])

\* sum over j = 1..n of hK[j] * coef[j], n <= 7, one component at a time
Sum7(s) ==
  Then(s, AddP(AddP(AddP(s[1], s[2]), AddP(s[3], s[4])),
               AddP(AddP(s[5], s[6]), s[7])))
Dot(hK, coef, n) ==
  Array([i \in 1..3 |->
    Sum7(Array([j \in 1..7 |-> IF j <= n THEN MulP(hK[j][i], coef[j]) ELSE ZP]))])

\* atol + max(|y|, |y_new|) * rtol, in units of 1 / W
Scale(y, y2) ==
  Array([i \in 1..3 |-> W + Max(AbsP(y[i])[1], AbsP(y2[i])[1]) \div 100])
\* |v[i]| / scale[i], as plain integers
Ratio(v, sc) == Array([i \in 1..3 |-> UDivN(AbsP(v[i])[1], sc[i], 4)])

\* stage j of rk_step: K[j] = fun(t + c*h, y + dy), kept as h * K[j]
StageAt(self, tj, yj, h, K) ==
  Then(yj, Append(K, V3Mul(no2_ode(self, tj, yj), h)))
Stage(self, t, y, h, K, j) ==
  StageAt(self, t + Mul(RK_C[j], h), V3Add(y, Dot(K, RK_A[j], j - 1)), h, K)

\* for s, (a, c) in enumerate(zip(A[1:], C[1:]), start=1)
RECURSIVE Stages(_, _, _, _, _, _)
Stages(self, t, y, h, K, j) ==
  IF j > 6 THEN K
  ELSE Then(K, Stages(self, t, y, h, Stage(self, t, y, h, K, j), j + 1))

\* rk_step: y_new = y + h * dot(K[:-1].T, B), f_new = fun(t + h, y_new),
\* K[-1] = f_new
RkClose(K6, y_new, f_new, h) ==
  Then(f_new, [y_new |-> y_new, f_new |-> f_new,
               hK |-> Append(K6, V3Mul(f_new, h))])
RkSolution(self, t_new, h, K6, y_new) ==
  Then(y_new, RkClose(K6, y_new, no2_ode(self, t_new, y_new), h))
RkStages(self, t_new, h, y, K6) ==
  Then(K6, RkSolution(self, t_new, h, K6, V3Add(y, Dot(K6, RK_B, 6))))
rk_step(self, t, y, f, h) ==
  RkStages(self, t + h, h, y, Stages(self, t, y, h, <<V3Mul(f, h)>>, 2))

\* _estimate_error_norm: norm(dot(K.T, E) * h / scale), divided by shift
\* (1024 when the norm would not fit); big when even that does not fit or
\* a stage is not finite
ErrorNorm(e, sc, shift) ==
  Norm3(Array([i \in 1..3 |-> UDivN(Fine(e[i], 100 * shift), sc[i], 8)]))
Exceeds(e, sc, sh) == \E i \in 1..3 : Fine(e[i], sh) >= 8 * sc[i]
ErrorReport(hK, e, sc, shift) ==
  [error_norm |-> ErrorNorm(e, sc, shift), shift |-> shift,
   big |-> (\E j \in 1..7 : \E i \in 1..3 : NonFinite(hK[j][i]))
           \/ Exceeds(e, sc, 102400)]
ErrorOf(hK, e, sc) ==
  Then(<<e, sc>>, ErrorReport(hK, e, sc, IF Exceeds(e, sc, 100) THEN 1024 ELSE 1))
estimate_error_norm(hK, sc) == ErrorOf(hK, Dot(hK, RK_E, 7), sc)

\* one pass of the `while not step_accepted' loop of _step_impl: the step
\* to t_new = min(t + h_abs, t_bound) and its error
Reported(t_new, h, x, er) ==
  Then(er, [t_new |-> t_new, h |-> h, y_new |-> x.y_new, f_new |-> x.f_new,
            hK |-> x.hK, error_norm |-> er.error_norm, shift |-> er.shift,
            big |-> er.big])
Judged(t_new, h, y, x) ==
  Then(x, Reported(t_new, h, x, estimate_error_norm(x.hK, Scale(y, x.y_new))))
Attempt(self, t, y, f, t_new) ==
  Judged(t_new, t_new - t, y, rk_step(self, t, y, f, t_new - t))

\* the factor the step size is multiplied by after a pass
Shrink(s) ==
  IF s.big THEN MIN_FACTOR
  ELSE Max(MIN_FACTOR, UDiv(IF s.shift = 1 THEN SAFETY ELSE SAFETY \div 4,
                            Root5(s.error_norm)))
Grow(s) ==
  IF s.error_norm = 0 THEN MAX_FACTOR
  ELSE Min(MAX_FACTOR, UDiv(SAFETY, Max(Root5(s.error_norm), 1)))

\* RungeKutta._step_impl from its `while not step_accepted' loop on
RECURSIVE StepLoop(_, _, _, _, _, _)
Decide(self, t, y, f, step_rejected, s) ==
  IF s.shift = 1 /\ s.error_norm < ONE
  THEN [ok |-> TRUE, t |-> s.t_new, h |-> s.h, y |-> s.y_new,
        f |-> s.f_new, hK |-> s.hK,
        h_abs |-> Mul(s.h, IF step_rejected THEN Min(ONE, Grow(s)) ELSE Grow(s))]
  ELSE StepLoop(self, t, y, f, Mul(s.h, Shrink(s)), TRUE)
StepLoop(self, t, y, f, h_abs, step_rejected) ==
  IF h_abs < MIN_STEP THEN [ok |-> FALSE]
  ELSE Decide(self, t, y, f, step_rejected,
              Attempt(self, t, y, f, Min(t + h_abs, self.t_max)))

step_impl(self, t, y, f, h_abs) ==
  StepLoop(self, t, y, f, Max(h_abs, MIN_STEP), FALSE)

\* scipy's select_initial_step
FirstGuess(self, d0, d1) ==
  Min(IF d0 = 0 \/ d1 = 0 THEN 100 ELSE UDiv(d0, d1) \div 100, self.t_max)
SecondGuess(h0, m) ==
  IF m = 0 THEN Max(100, h0 \div 1000)
  ELSE Root5(IF m >= 10^7 THEN UDiv(10^8, m)
             ELSE IF m >= 100 THEN UDiv(1000, m)
             ELSE UDiv(1, m) \div 100)
       \div (IF m >= 10^7 THEN 100 ELSE IF m >= 100 THEN 10 ELSE 1)
Chosen(self, h0, m) ==
  Then(m, Min(100 * h0, Min(SecondGuess(h0, m), self.t_max)))
SecondDerivative(self, sc, d1, h0, d2) ==
  Then(d2, Chosen(self, h0, Max(d1, UDiv(d2, h0))))
TrialSlope(self, sc, d1, h0, df) ==
  Then(df, SecondDerivative(self, sc, d1, h0, Norm3(Ratio(df, sc))))
TrialPoint(self, f0, sc, d1, h0, y1) ==
  Then(y1, TrialSlope(self, sc, d1, h0, V3Sub(no2_ode(self, h0, y1), f0)))
Probed(self, y0, f0, sc, d1, h0) ==
  Then(h0, TrialPoint(self, f0, sc, d1, h0, V3Add(y0, V3Mul(f0, h0))))
Scaled(self, y0, f0, sc, d0, d1) ==
  Then(<<d0, d1>>, Probed(self, y0, f0, sc, d1, FirstGuess(self, d0, d1)))
select_initial_step(self, y0, f0) ==
  Scaled(self, y0, f0, Scale(y0, y0), Norm3(Ratio(y0, Scale(y0, y0))),
         Norm3(Ratio(f0, Scale(y0, y0))))


\* RkDenseOutput: the solution at t_old + x*h, rounded down to whole units
RECURSIVE Horner(_, _, _, _)
Horner(q, x, acc, j) ==
  IF j = 0 THEN acc
  ELSE Then(acc, Horner(q, x, MulP(AddP(q[j], acc), x), j - 1))
DensePoly(q, x) == Horner(q, x, ZP, 4)
PColumn(p) == <<RK_P[1][p], RK_P[2][p], RK_P[3][p], RK_P[4][p], RK_P[5][p],
                RK_P[6][p], RK_P[7][p]>>
DenseQ(hK) == Array([p \in 1..4 |-> Dot(hK, PColumn(p), 7)])
DenseAt(y_old, Q, x) ==
  Then(x, Array([i \in 1..3 |->
         AddP(y_old[i], DensePoly(<<Q[1][i], Q[2][i], Q[3][i], Q[4][i]>>, x))[1]]))
dense_output(t_old, h, y_old, Q, te) == DenseAt(y_old, Q, UDiv(te - t_old, h))

\* linspace that leaves out the end point
linspace_open(t_max, points) ==
  IF points = 1 THEN <<0>>
  ELSE Array([i \in 1..points |-> (i - 1) * (t_max \div (points - 1))])

\* numpy.linspace(0, t_max, points)
linspace(t_max, points) ==
  IF points = 1 THEN <<0>>
  ELSE LET step == t_max \div (points - 1)
       IN Array([i \in 1..points |-> IF i = points THEN t_max ELSE (i - 1) * step])

\* the solver is given 8^StepDoublings passes of its loop
StepDoublings == 3

\* RK45.__init__ and the state solve_ivp keeps: status, the solver's t, y,
\* f and h_abs, and ys, the samples collected so far
Started(self, y0, f0) ==
  Then(f0, [status |-> "running", t |-> 0, y |-> y0, f |-> f0,
            h_abs |-> IF self.t_max = 0 THEN 0
                      ELSE select_initial_step(self, y0, f0),
            ys |-> <<>>])
SolverInit(self, y0) == Started(self, y0, no2_ode(self, 0, y0))

\* one pass of solve_ivp's `while status is None' loop: solver.step(), then
\* sol(t) for the t_eval entries the step reached (searchsorted, side='right')
Sampled(self, st, s, fresh) ==
  Then(fresh, [status |-> IF s.t = self.t_max THEN "finished" ELSE "running",
               t |-> s.t, y |-> s.y, f |-> s.f, h_abs |-> s.h_abs,
               ys |-> st.ys \o fresh])
Interpolated(self, t_eval, st, s, Q, done, upto) ==
  Then(Q, Sampled(self, st, s,
         Array([j \in 1..(upto - done) |->
                  dense_output(st.t, s.h, st.y, Q, t_eval[done + j])])))
Stepped(self, t_eval, st, s) ==
  IF ~s.ok THEN [st EXCEPT !.status = "failed"]
  ELSE Interpolated(self, t_eval, st, s, DenseQ(s.hK), Len(st.ys),
                    Cardinality({i \in 1..Len(t_eval) : t_eval[i] <= s.t}))
SolverStep(self, t_eval, st) ==
  IF st.status # "running" THEN st
  ELSE IF st.t = self.t_max
  THEN [st EXCEPT !.status = "finished",
                  !.ys = Array([i \in 1..Len(t_eval) |->
                                  <<st.y[1][1], st.y[2][1], st.y[3][1]>>])]
  ELSE Stepped(self, t_eval, st, step_impl(self, st.t, st.y, st.f, st.h_abs))

\* up to 8^k passes of the loop, which ends when status is set
RECURSIVE SolverRun(_, _, _, _)
SolverRun(self, t_eval, st, k) ==
  IF st.status # "running" THEN st
  ELSE IF k = 0 THEN SolverStep(self, t_eval, st)
  ELSE LET s1 == SolverRun(self, t_eval, st, k - 1)
           s2 == SolverRun(self, t_eval, s1, k - 1)
           s3 == SolverRun(self, t_eval, s2, k - 1)
           s4 == SolverRun(self, t_eval, s3, k - 1)
           s5 == SolverRun(self, t_eval, s4, k - 1)
           s6 == SolverRun(self, t_eval, s5, k - 1)
           s7 == SolverRun(self, t_eval, s6, k - 1)
       IN Then(<<s1, s2, s3, s4, s5, s6, s7>>, SolverRun(self, t_eval, s7, k - 1))

\* solve_ivp(fun, [0, t_max], y0, t_eval=t_eval, method='RK45', rtol=1e-6):
\* y holds one sample for every t_eval entry the accepted steps reached
Solution(st) == [success |-> st.status = "finished", y |-> st.ys]
solve_ivp(self, y0, t_eval) ==
  Solution(SolverRun(self, t_eval, SolverInit(self, y0), StepDoublings))

(***************************************************************************)
(* NODynamicsSimulator.simulate and its derived outputs                    *)
(***************************************************************************)
PLASMA_WEIGHT == 70000000     \* 0.7
TISSUE_WEIGHT == 20000000     \* 0.2
RBC_WEIGHT    == 10000000     \* 0.1
BIOACTIVE     == 50000000     \* 0.5
\* None, for an attribute that holds a table and for one that holds an array
None    == [none |-> TRUE]
NoArray == <<>>

\* Python's max() of a non-empty array
RECURSIVE MaxOf(_, _, _)
MaxOf(a, lo, hi) ==
  IF lo = hi THEN a[lo]
  ELSE LET mid == (lo + hi) \div 2
       IN Max(MaxOf(a, lo, mid), MaxOf(a, mid + 1, hi))
SeqMax(a) == MaxOf(a, 1, Len(a))

\* ten times the array, not divided by its maximum
CgmpOf_unscaled(no2_array, top) == Array([i \in 1..Len(no2_array) |-> 10 * no2_array[i]])
\* 10 * (no2_array / max(no2_array)) if max(no2_array) > 0, else zeros
CgmpOf(no2_array, top) ==
  IF top > 0
  THEN Array([i \in 1..Len(no2_array) |-> 10 * (Div(no2_array[i], top) \div 100)])
  ELSE Array([i \in 1..Len(no2_array) |-> 0])
calculate_cgmp(no2_array) == CgmpOf(no2_array, SeqMax(no2_array))

\* 100 + 50 * (cgmp_array / max(cgmp_array)) if max(cgmp_array) > 0, else 100s
VasodilationOf(cgmp_array, top) ==
  IF top > 0
  THEN Array([i \in 1..Len(cgmp_array) |->
                100 * YU + 50 * (Div(cgmp_array[i], top) \div 100)])
  ELSE Array([i \in 1..Len(cgmp_array) |-> 100 * YU])
calculate_vasodilation(cgmp_array) == VasodilationOf(cgmp_array, SeqMax(cgmp_array))

Column(ys, c) == Array([i \in 1..Len(ys) |-> ys[i][c]])

\* pandas.DataFrame(dict of columns): every column must have one length
DataFrame(time, plasma, tissue, rbc, total, bioactive, cgmp, vasodilation) ==
  IF Len(plasma) # Len(time) THEN None
  ELSE [hours        |-> time,
        minutes      |-> Array([i \in 1..Len(time) |-> (time[i] \div 100) * 60]),
        plasma       |-> plasma,
        tissue       |-> tissue,
        rbc          |-> rbc,
        total        |-> total,
        bioactive    |-> bioactive,
        cgmp         |-> cgmp,
        vasodilation |-> vasodilation]

\* simulate(): what it raises ("" when it returns), whether the solver
\* succeeded, and the attributes it has assigned by then.  sol.success is never read; sol.y[0] raises
\* IndexError when the solver collected no sample, and DataFrame raises
\* ValueError when the solver stopped short of t_max.
Outcome(grid, plasma, cgmp, vasodilation, df) ==
  [raised |-> IF df = None THEN "ValueError" ELSE "",
   t_eval |-> grid, plasma_no2 |-> plasma, cgmp_levels |-> cgmp,
   vasodilation |-> vasodilation, results_df |-> df]
Tabulated(grid, plasma, tissue, rbc, total, bioactive, cgmp, vasodilation) ==
  Then(vasodilation,
       Outcome(grid, plasma, cgmp, vasodilation,
               DataFrame(grid, plasma, tissue, rbc, total, bioactive, cgmp,
                         vasodilation)))
Effects(grid, plasma, tissue, rbc, total, bioactive, cgmp) ==
  Then(cgmp, Tabulated(grid, plasma, tissue, rbc, total, bioactive, cgmp,
                       calculate_vasodilation(cgmp)))
Derived(grid, plasma, tissue, rbc, total, bioactive) ==
  Then(<<total, bioactive>>,
       Effects(grid, plasma, tissue, rbc, total, bioactive,
               calculate_cgmp(bioactive)))
Compartments(grid, plasma, tissue, rbc) ==
  Then(<<plasma, tissue, rbc>>,
       Derived(grid, plasma, tissue, rbc,
               Array([i \in 1..Len(plasma) |-> Mul(plasma[i], PLASMA_WEIGHT)
                                               + Mul(tissue[i], TISSUE_WEIGHT)
                                               + Mul(rbc[i], RBC_WEIGHT)]),
               Array([i \in 1..Len(rbc) |-> Mul(rbc[i], BIOACTIVE)])))
Indexed(grid, ys) ==
  IF Len(ys) = 0
  THEN [raised |-> "IndexError", t_eval |-> grid, plasma_no2 |-> NoArray,
        cgmp_levels |-> NoArray, vasodilation |-> NoArray, results_df |-> None]
  ELSE Compartments(grid, Column(ys, 1), Column(ys, 2), Column(ys, 3))
\* success is sol.success, which simulate() has at hand and does not read
Solved(grid, sol) ==
  Then(sol, [success |-> sol.success] @@ Indexed(grid, sol.y))
Integrated(self, grid) ==
  Solved(grid, solve_ivp(self, << <<self.baseline, 0>>,
                                  <<Mul(self.baseline, TISSUE_SPLIT), 0>>,
                                  <<Mul(self.baseline, RBC_SPLIT), 0>> >>, grid))
simulate(self) == Integrated(self, linspace(self.t_max, self.points))

(***************************************************************************)
(* Constructor arguments the model explores.  The constructor accepts any  *)
(* value, so the set holds negative amounts, an empty time span, a single  *)
(* point and the float infinity (INF) beside the documented scenarios.     *)
(***************************************************************************)
INF == SAT
IR == "immediate-release"
ER == "extended-release"
DefaultEgfr     == 90
DefaultRbcCount == 4500000
DefaultPoints   == 360
DefaultTMax     == 6 * ONE
CoarsePoints    == 25

Args(baseline, dose, formulation, t_max, points, additional_doses) ==
  [baseline |-> baseline, peak |-> 4 * ONE, t_peak |-> ONE \div 2,
   half_life |-> ONE \div 2, t_max |-> t_max, points |-> points,
   egfr |-> DefaultEgfr, rbc_count |-> DefaultRbcCount, dose |-> dose,
   additional_doses |-> additional_doses, formulation |-> formulation]

Baselines == {-(YU \div 5), 0, YU \div 5}
TwoMore   == << [time |-> 2 * ONE, amount |-> 15 * YU],
                [time |-> 4 * ONE, amount |-> 15 * YU] >>

\* the documented scenarios (default subject; 30 mg then 15 mg at 2 h and
\* 4 h over 8 h), then on a coarser grid: no dose for every baseline and
\* formulation, a dose for a negative baseline, a negative dose, the
\* extended-release dose, an empty time span, a single point, and doses of
\* float infinity; the extended-release dose on the default grid; and the
\* extended-release dose with other values for peak, t_peak and half_life
OtherKinetics(a) == [a EXCEPT !.peak = 6 * ONE, !.t_peak = ONE, !.half_life = ONE]
Arguments ==
  { Args(YU \div 5, 30 * YU, IR, DefaultTMax, DefaultPoints, <<>>),
    Args(YU \div 5, 30 * YU, IR, 8 * ONE, DefaultPoints, TwoMore),
    Args(YU \div 5, 30 * YU, ER, DefaultTMax, DefaultPoints, <<>>),
    OtherKinetics(Args(YU \div 5, 30 * YU, ER, DefaultTMax, CoarsePoints, <<>>)) }
  \cup { Args(b, 0, fm, DefaultTMax, CoarsePoints, <<>>) :
           b \in Baselines, fm \in {IR, ER} }
  \cup { Args(-(YU \div 5), 30 * YU, IR, DefaultTMax, CoarsePoints, <<>>),
         Args(YU \div 5, -30 * YU, IR, DefaultTMax, CoarsePoints, <<>>),
         Args(YU \div 5, 30 * YU, ER, DefaultTMax, CoarsePoints, <<>>),
         Args(YU \div 5, 30 * YU, IR, 0, 4, <<>>),
         Args(YU \div 5, 0, IR, DefaultTMax, 1, <<>>),
         Args(YU \div 5, 30 * YU, IR, DefaultTMax, CoarsePoints,
              <<[time |-> ONE \div 20, amount |-> INF]>>),
         Args(YU \div 5, INF, IR, DefaultTMax, CoarsePoints, <<>>) }

\* oxygen saturations passed to simulate_hypoxia (0.8 is its default)
Saturations == {8 * (ONE \div 10), NORMOXIA}

\* __init__: stores its arguments unchecked and derives the two rates
construct(a) ==
  [baseline |-> a.baseline, peak |-> a.peak, t_peak |-> a.t_peak,
   half_life |-> a.half_life, t_max |-> a.t_max, points |-> a.points,
   egfr |-> a.egfr, rbc_count |-> a.rbc_count, dose |-> a.dose,
   additional_doses |-> a.additional_doses, formulation |-> a.formulation,
   k_clear |-> renal_clearance_rate(a.egfr),
   k_rbc   |-> rbc_scavenging_rate(a.rbc_count, NORMOXIA)]

\* NODynamicsSimulator(): every argument at its default (the simulator a
\* ParameterOptimizer makes for itself), and with one argument given
DefaultSimulator == construct(Args(YU \div 5, 30 * YU, IR, DefaultTMax, DefaultPoints, <<>>))
\* setattr(self, name, value): the attribute alone changes; k_clear and k_rbc
\* were derived in __init__ and stay
setattr(self, name, value) == [self EXCEPT ![name] = value]
\* simulate() reads baseline, dose, additional_doses, formulation, t_max,
\* points, k_clear and k_rbc and none of peak, t_peak, half_life, egfr and
\* rbc_count: the instance with those five at their defaults has the same
\* result
Canonical(self) ==
  [self EXCEPT !.peak = 4 * ONE, !.t_peak = ONE \div 2, !.half_life = ONE \div 2,
               !.egfr = DefaultEgfr, !.rbc_count = DefaultRbcCount]
\* the values the optimizer and the sensitivity sweep try for each parameter
Tried ==
  [baseline  |-> <<YU \div 5, (3 * YU) \div 10>>,
   peak      |-> <<4 * ONE, 6 * ONE>>,
   t_peak    |-> <<ONE \div 2>>,
   half_life |-> <<ONE \div 2>>,
   egfr      |-> <<DefaultEgfr, 60>>,
   rbc_count |-> <<DefaultRbcCount, 3000000>>,
   dose      |-> <<30 * YU, 20 * YU>>]
\* the instances those values lead to: on the optimizer's own simulator
\* (k_clear and k_rbc as derived from the defaults) and on a new one
FitInstances ==
  { [DefaultSimulator EXCEPT !.baseline = Tried.baseline[i], !.dose = Tried.dose[j]] :
      i \in 1..2, j \in 1..2 }
  \cup { [DefaultSimulator EXCEPT !.k_clear = renal_clearance_rate(Tried.egfr[2])],
         [DefaultSimulator EXCEPT !.k_rbc = rbc_scavenging_rate(Tried.rbc_count[2], NORMOXIA)] }

\* simulate() reads only the instance's fields, so its result is tabulated
\* once for every value the fields can take
Instances ==
  { construct(a) : a \in Arguments }
  \cup FitInstances
  \cup { [construct(a) EXCEPT !.k_rbc = rbc_scavenging_rate(a.rbc_count, o)] :
           a \in Arguments, o \in Saturations }
Simulated == [s \in Instances |-> simulate(s)]

(***************************************************************************)
(* One simulator object and the calls made on it.                          *)
(*   simulator  its parameters and the two derived rates                   *)
(*   outputs    the result attributes simulate() assigns (an attribute     *)
(*              that is still None holds NoArray, or None for the table)   *)
(*   call       the last call: its name, arguments, k_rbc when it began,   *)
(*              the k_rbc it ran the integration with, whether the solver  *)
(*              succeeded, and the exception it raised ("" if it returned) *)
(*   before     the table of the last simulate() that returned             *)
(*   probe      one call of _dose_input: its arguments and what it returned*)
(*   data       the table a StatisticalAnalyzer has loaded                 *)
(*   analysis   the analyzer's last call and what it returned              *)
(*   optimizer  a ParameterOptimizer's attributes                          *)
(*   fit        the optimizer's last call, its objective evaluations and   *)
(*              what it returned                                           *)
(*   batch      the last request to /api/batch-simulate and its response   *)
(*   pool       simulator objects used by callers that run side by side    *)
(***************************************************************************)
VARIABLES simulator, outputs, call, before, probe, data, analysis, optimizer, fit,
          batch, pool
simulation == <<simulator, outputs, call, before>>
analyzer   == <<data, analysis>>
fitting    == <<optimizer, fit>>
service    == <<batch, pool>>
vars == <<simulation, probe, analyzer, fitting, service>>

NoOutputs == [t_eval |-> NoArray, plasma_no2 |-> NoArray, cgmp_levels |-> NoArray,
              vasodilation |-> NoArray, results_df |-> None]

\* a call that ran no integration
NoCall == [op |-> "__init__", args |-> <<>>, entry_k_rbc |-> 0, k_rbc |-> 0,
           success |-> TRUE, raised |-> ""]

\* the attributes as simulate() leaves them: it assigns t_eval first, the
\* arrays once sol.y[0] exists, and results_df only if DataFrame() returns
Assigned(old, r) ==
  IF r.raised = "IndexError" THEN [old EXCEPT !.t_eval = r.t_eval]
  ELSE IF r.raised = "ValueError"
  THEN [old EXCEPT !.t_eval = r.t_eval, !.plasma_no2 = r.plasma_no2,
                   !.cgmp_levels = r.cgmp_levels, !.vasodilation = r.vasodilation]
  ELSE [t_eval |-> r.t_eval, plasma_no2 |-> r.plasma_no2,
        cgmp_levels |-> r.cgmp_levels, vasodilation |-> r.vasodilation,
        results_df |-> r.results_df]

\* nothing has been asked of _dose_input; no analyzer has loaded anything
NoProbe    == [t |-> 0, dose |-> 0, additional_doses |-> <<>>,
               called |-> FALSE, returned |-> 0]
NoData     == None
NoAnalysis == [op |-> "__init__", args |-> <<>>, raised |-> "", returned |-> None]
\* ParameterOptimizer(): no data, a simulator of its own with every argument
\* at its default, nothing optimised (a dict that is None is <<>>, a name
\* that is None is "")
NewOptimizer ==
  [experimental_data |-> None, time_column |-> "", target_column |-> "",
   simulator |-> DefaultSimulator,
   best_params |-> <<>>, best_simulation |-> None]
NoFit == [op |-> "__init__", args |-> <<>>, raised |-> "", returned |-> None,
          evaluations |-> <<>>]
NoFitting ==
  /\ optimizer = NewOptimizer
  /\ fit = NoFit
\* no request has been served; no simulator is shared out to callers
NoBatch == [request |-> <<>>, status |-> 0, error |-> "", simulations |-> <<>>,
            results |-> <<>>]
NoPool  == <<>>
NoService ==
  /\ batch = NoBatch
  /\ pool = NoPool
Others ==
  /\ probe = NoProbe
  /\ data = NoData
  /\ analysis = NoAnalysis
  /\ NoFitting
  /\ NoService

Init ==
  /\ \E a \in Arguments : simulator = construct(a)
  /\ outputs = NoOutputs
  /\ call = NoCall
  /\ before = None
  /\ Others

\* NODynamicsSimulator(**a): a new object takes the place of the old one
Construct(a) ==
  /\ simulator' = construct(a)
  /\ outputs' = NoOutputs
  /\ call' = NoCall
  /\ before' = None
  /\ UNCHANGED <<probe, analyzer, fitting, service>>

\* simulate() run on the object with fields `self', r being what it does:
\* the attributes and the record of the call
Ran(op, args, self, r) ==
  /\ outputs' = Assigned(outputs, r)
  /\ call' = [op |-> op, args |-> args, entry_k_rbc |-> simulator.k_rbc,
              k_rbc |-> self.k_rbc, success |-> r.success,
              raised |-> r.raised]
  /\ before' = IF r.raised = "" /\ op # "simulate_hypoxia"
               THEN r.results_df ELSE before

\* simulator.simulate()
Simulate ==
  /\ Ran("simulate", <<>>, simulator, Simulated[simulator])
  /\ UNCHANGED <<simulator, probe, analyzer, fitting, service>>

\* simulator.simulate_hypoxia(oxygen_saturation): k_rbc is put back by the
\* statement after self.simulate(), which an exception skips
Hypoxia(original_k_rbc, hypoxic, oxygen_saturation) ==
  /\ Ran("simulate_hypoxia", <<oxygen_saturation>>, hypoxic, Simulated[hypoxic])
  /\ simulator' = IF call'.raised = ""
                  THEN [hypoxic EXCEPT !.k_rbc = original_k_rbc]
                  ELSE hypoxic
  /\ UNCHANGED <<probe, analyzer, fitting, service>>
SimulateHypoxia(oxygen_saturation) ==
  Hypoxia(simulator.k_rbc,
          [simulator EXCEPT !.k_rbc = rbc_scavenging_rate(simulator.rbc_count,
                                                          oxygen_saturation)],
          oxygen_saturation)

\* simulator.export_to_csv(): simulate() first if there is no table yet
ExportToCsv ==
  /\ IF outputs.results_df = None
     THEN Ran("export_to_csv", <<>>, simulator, Simulated[simulator])
     ELSE /\ call' = [NoCall EXCEPT !.op = "export_to_csv"]
          /\ UNCHANGED <<outputs, before>>
  /\ UNCHANGED <<simulator, probe, analyzer, fitting, service>>

Next ==
  \/ \E a \in Arguments : Construct(a)
  \/ Simulate
  \/ \E o \in Saturations : SimulateHypoxia(o)
  \/ ExportToCsv

Spec == Init /\ [][Next]_vars

(***************************************************************************)
(* Properties of the simulator                                             *)
(***************************************************************************)
ScenarioA == construct(Args(YU \div 5, 30 * YU, IR, DefaultTMax, DefaultPoints, <<>>))
ScenarioB == construct(Args(YU \div 5, 30 * YU, IR, 8 * ONE, DefaultPoints, TwoMore))

\* the last call ran simulate() and it returned
Returned ==
  /\ call.op \in {"simulate", "simulate_hypoxia", "export_to_csv"}
  /\ call.raised = ""
  /\ outputs.results_df # None

\* the index of the first largest entry of a non-empty array (idxmax)
IdxMax(a) == CHOOSE k \in 1..Len(a) :
               /\ \A i \in 1..Len(a) : a[i] <= a[k]
               /\ \A i \in 1..(k - 1) : a[i] < a[k]
\* the rows that are larger than both neighbours
LocalMaxima(a) == {i \in 2..(Len(a) - 1) : a[i] > a[i - 1] /\ a[i] > a[i + 1]}

\* C1: whenever simulate() returns on a simulator with t_max > 0 and
\* points >= 2, its table has exactly `points' rows and its hours column
\* starts at 0, ends at t_max and is strictly increasing
C1_TableShape ==
  (Returned /\ simulator.t_max > 0 /\ simulator.points >= 2) =>
    LET hours == outputs.results_df.hours
    IN /\ Len(hours) = simulator.points
       /\ Len(outputs.results_df.plasma) = simulator.points
       /\ hours[1] = 0
       /\ hours[Len(hours)] = simulator.t_max
       /\ \A i \in 1..(Len(hours) - 1) : hours[i] < hours[i + 1]
C1_Witness ==
  /\ Returned
  /\ call.op = "simulate"
  /\ simulator = ScenarioA
  /\ Len(outputs.results_df.hours) = DefaultPoints
  /\ outputs.results_df.hours[DefaultPoints] = DefaultTMax

\* C2: simulate() is never run on a simulator with t_max <= 0, points < 2,
\* a negative dose or a negative baseline, because no such simulator can be
\* constructed
C2_Validated ==
  call.op # "__init__" =>
    /\ simulator.t_max > 0
    /\ simulator.points >= 2
    /\ simulator.dose >= 0
    /\ simulator.baseline >= 0

\* C3: when the solver fails, simulate() raises a numerical error; no
\* attribute and no table ever holds fewer than `points' samples
C3_NumericalError ==
  /\ (call.op # "__init__" /\ ~call.success) => call.raised = "NumericalError"
  /\ Len(outputs.plasma_no2) \in {0, simulator.points}
  /\ outputs.results_df # None =>
       Len(outputs.results_df.plasma) = simulator.points

\* C4: after a run every cGMP sample is >= 0 and every vasodilation sample
\* is >= 100; they are all 0 and all 100 when bioactive NO has maximum 0
C4_SignalRanges ==
  Returned =>
    /\ \A i \in 1..Len(outputs.cgmp_levels) :
         /\ outputs.cgmp_levels[i] >= 0
         /\ outputs.vasodilation[i] >= 100 * YU
    /\ SeqMax(outputs.results_df.bioactive) = 0 =>
         \A i \in 1..Len(outputs.cgmp_levels) :
           /\ outputs.cgmp_levels[i] = 0
           /\ outputs.vasodilation[i] = 100 * YU

NonNegativeAmounts(self) ==
  /\ self.baseline >= 0
  /\ self.dose >= 0
  /\ \A i \in 1..Len(self.additional_doses) : self.additional_doses[i].amount >= 0


\* C5: with a non-negative baseline, dose and additional amounts, plasma,
\* tissue and RBC nitrite are >= 0 at every sample of the result
C5_NonNegative ==
  (Returned /\ NonNegativeAmounts(simulator)) =>
    \A i \in 1..Len(outputs.results_df.plasma) :
      /\ outputs.results_df.plasma[i] >= 0
      /\ outputs.results_df.tissue[i] >= 0
      /\ outputs.results_df.rbc[i] >= 0
C5_Witness ==
  /\ Returned
  /\ NonNegativeAmounts(simulator)
  /\ simulator.dose > 0
  /\ simulator.t_max > 0
  /\ \E i \in 1..Len(outputs.results_df.plasma) :
       outputs.results_df.plasma[i] > simulator.baseline

\* C6: with dose 0 and no additional doses plasma nitrite never increases
\* from one sample to the next
C6_NoSpuriousFlux ==
  (Returned /\ simulator.dose = 0 /\ simulator.additional_doses = <<>>) =>
    /\ \A i \in 1..Len(outputs.t_eval) : InputFlux(simulator, outputs.t_eval[i]) = 0
    /\ \A i \in 1..(Len(outputs.plasma_no2) - 1) :
         outputs.plasma_no2[i + 1] <= outputs.plasma_no2[i]

\* C7: a run under hypoxia integrates with a strictly higher RBC rate than
\* the same simulator does at the default saturation
C7_HypoxiaRaisesRate ==
  (call.op = "simulate_hypoxia" /\ call.args[1] < NORMOXIA
     /\ simulator.rbc_count > 0) =>
    call.k_rbc > rbc_scavenging_rate(simulator.rbc_count, NORMOXIA)

\* C8: when simulate_hypoxia finishes, returned or raised, k_rbc equals its
\* value before the call
C8_RateRestored ==
  call.op = "simulate_hypoxia" => simulator.k_rbc = call.entry_k_rbc

\* C9: Scenario A's plasma nitrite starts at 0.2, has its maximum between
\* 30 and 60 minutes and decreases after it
C9_PeakWindow ==
  (Returned /\ call.op = "simulate" /\ simulator = ScenarioA) =>
    LET plasma == outputs.results_df.plasma
        k == IdxMax(plasma)
    IN /\ plasma[1] = YU \div 5
       /\ outputs.results_df.minutes[k] >= 30 * YU
       /\ outputs.results_df.minutes[k] <= 60 * YU
       /\ \A i \in k..(Len(plasma) - 1) : plasma[i + 1] < plasma[i]

\* C10: with 30 at 0 h and 15 at 2 h and 4 h over 8 h the plasma series has
\* at least three local maxima
C10_ThreePeaks ==
  (Returned /\ call.op = "simulate" /\ simulator = ScenarioB) =>
    Cardinality(LocalMaxima(outputs.results_df.plasma)) >= 3

(***************************************************************************)
(* _dose_input on its own: the times lie on and beside the edges of the    *)
(* dosing windows, and the additional doses include windows that overlap   *)
(* the primary dose's and each other's.                                    *)
(***************************************************************************)
NoSimulation ==
  /\ simulator = construct(Args(YU \div 5, 30 * YU, IR, DefaultTMax, DefaultPoints, <<>>))
  /\ outputs = NoOutputs
  /\ call = NoCall
  /\ before = None

ProbeTimes ==
  { 0, ONE \div 20, DOSE_WINDOW - 1, DOSE_WINDOW, DOSE_WINDOW + 1,
    2 * ONE - 1, 2 * ONE, 2 * ONE + ONE \div 20, 2 * ONE + DOSE_WINDOW, 3 * ONE }
ProbeDoses == {0, 30 * YU}
ProbeSchedules ==
  { <<>>,
    TwoMore,
    <<[time |-> ONE \div 25, amount |-> 15 * YU]>>,
    <<[time |-> 2 * ONE, amount |-> 10 * YU],
      [time |-> 2 * ONE + ONE \div 50, amount |-> 20 * YU]>>,
    <<[time |-> 0, amount |-> 15 * YU], [time |-> 0, amount |-> 15 * YU]>>,
    <<[time |-> 2 * ONE, amount |-> -(15 * YU)],
      [time |-> 2 * ONE, amount |-> 15 * YU],
      [time |-> ONE \div 25, amount |-> 5 * YU]>> }

Asked(t, dose, additional_doses) ==
  [t |-> t, dose |-> dose, additional_doses |-> additional_doses,
   called |-> FALSE, returned |-> 0]

DoseInit ==
  /\ \E t \in ProbeTimes, d \in ProbeDoses, ds \in ProbeSchedules :
       probe = Asked(t, d, ds)
  /\ NoSimulation
  /\ data = NoData
  /\ analysis = NoAnalysis
  /\ NoFitting
  /\ NoService

\* the next arguments to call _dose_input with
Ask(t, dose, additional_doses) ==
  /\ probe.called
  /\ probe' = Asked(t, dose, additional_doses)
  /\ UNCHANGED <<simulation, analyzer, fitting, service>>

\* self._dose_input(t, dose, additional_doses=...): t_IR keeps its default
DoseInput ==
  /\ ~probe.called
  /\ probe' = [probe EXCEPT !.called = TRUE,
                            !.returned = dose_input(probe.t, probe.dose, 0,
                                                    probe.additional_doses)]
  /\ UNCHANGED <<simulation, analyzer, fitting, service>>

DoseNext ==
  \/ \E t \in ProbeTimes, d \in ProbeDoses, ds \in ProbeSchedules : Ask(t, d, ds)
  \/ DoseInput
DoseSpec == DoseInit /\ [][DoseNext]_vars

\* t lies in the half-open window [t0, t0 + 0.083)
Contains(t0, t) == t0 <= t /\ t < t0 + DOSE_WINDOW
\* the sum of f[i] over the indices in S
RECURSIVE SumOver(_, _)
SumOver(f, S) ==
  IF S = {} THEN 0
  ELSE LET i == CHOOSE j \in S : TRUE IN f[i] + SumOver(f, S \ {i})
\* the additional doses without the i-th
Without(doses, i) == [j \in 1..(Len(doses) - 1) |-> IF j < i THEN doses[j] ELSE doses[j + 1]]

\* C11: the dose input flux at t is the sum of amount/0.083 over exactly the
\* doses (the primary dose at time 0 and every additional dose) whose window
\* [t0, t0 + 0.083) contains t, 0 when none does; overlapping doses add, and
\* taking one additional dose away changes the flux by that dose's own
\* contribution only
C11_Superposition ==
  probe.called =>
    LET ds   == probe.additional_doses
        own  == [i \in 1..Len(ds) |-> Div(ds[i].amount, DOSE_WINDOW)]
        hits == {i \in 1..Len(ds) : Contains(ds[i].time, probe.t)}
    IN /\ probe.returned =
            (IF Contains(0, probe.t) THEN Div(probe.dose, DOSE_WINDOW) ELSE 0)
            + SumOver(own, hits)
       /\ (~Contains(0, probe.t) /\ hits = {}) => probe.returned = 0
       /\ \A i \in 1..Len(ds) :
            probe.returned - dose_input(probe.t, probe.dose, 0, Without(ds, i))
              = IF i \in hits THEN own[i] ELSE 0
\* the primary dose's window and a later dose's window overlap and both
\* contain t: the flux is more than the primary dose gives alone
C11_Witness ==
  /\ probe.called
  /\ probe.dose > 0
  /\ Contains(0, probe.t)
  /\ \E i \in 1..Len(probe.additional_doses) :
       /\ probe.additional_doses[i].time > 0
       /\ Contains(probe.additional_doses[i].time, probe.t)
  /\ probe.returned > Div(probe.dose, DOSE_WINDOW)

(***************************************************************************)
(* statistical_analysis.py: StatisticalAnalyzer.  A table maps its column  *)
(* names to columns of equal length and has the default index 0, 1, ...    *)
(* that read_csv and the simulator's tables carry, so a row's label is     *)
(* its position.  Its numbers are in millionths (YU is 1.0), and an        *)
(* optional float is None or Float(x).                                     *)
(***************************************************************************)
HOURS    == "Time (hours)"
MINUTES  == "Time (minutes)"
NO2      == "Plasma NO2- (uM)"
Float(x) == [float |-> x]
Raise(e) == [raised |-> e, returned |-> None]
Return(v) == [raised |-> "", returned |-> v]

\* Series.idxmax / idxmin: the label of the first largest / smallest entry
\* among the rows labelled first, first + 1, ...; the positions lo..hi are
\* searched by halves, the earlier position winning a tie
Later(a, l, r)   == IF a[r] >= a[l] THEN r ELSE l
Larger(a, l, r)  == IF a[r] > a[l] THEN r ELSE l
Smaller(a, l, r) == IF a[r] < a[l] THEN r ELSE l
RECURSIVE ArgMax_last(_, _, _)
ArgMax_last(a, lo, hi) ==
  IF lo >= hi THEN lo
  ELSE Later(a, ArgMax_last(a, lo, (lo + hi) \div 2),
             ArgMax_last(a, (lo + hi) \div 2 + 1, hi))
RECURSIVE ArgMax(_, _, _)
ArgMax(a, lo, hi) ==
  IF lo >= hi THEN lo
  ELSE Larger(a, ArgMax(a, lo, (lo + hi) \div 2), ArgMax(a, (lo + hi) \div 2 + 1, hi))
RECURSIVE ArgMin(_, _, _)
ArgMin(a, lo, hi) ==
  IF lo >= hi THEN lo
  ELSE Smaller(a, ArgMin(a, lo, (lo + hi) \div 2), ArgMin(a, (lo + hi) \div 2 + 1, hi))
idxmax(a, first) == first + ArgMax(a, 1, Len(a)) - 1
idxmin(a, first) == first + ArgMin(a, 1, Len(a)) - 1

\* data.loc[label, column], data.iloc[from:][column] and len(data)
Loc(frame, label, column) == frame[column][label + 1]
Rows(frame) == Len(frame[NO2])
ILocFrom(frame, from, column) == SubSeq(frame[column], from + 1, Rows(frame))

TimeCol(frame) == IF HOURS \in DOMAIN frame THEN HOURS ELSE MINUTES
SIXTY == 60
\* a / b for a whole number b, truncated toward zero
Over(a, b) == Sgn(a) * Sgn(b) * (Abs(a) \div Abs(b))
TimeFactor_hours(time_col) == 1
TimeFactor(time_col) == IF time_col = MINUTES THEN SIXTY ELSE 1

peak_analysis(frame, column) ==
  IF frame = NoData THEN Raise("ValueError")
  ELSE IF Rows(frame) = 0 THEN Raise("ValueError")
  ELSE LET peak_idx == idxmax(frame[column], 0)
       IN Return([peak_value   |-> Loc(frame, peak_idx, column),
                  time_to_peak |-> Loc(frame, peak_idx, TimeCol(frame)),
                  peak_index   |-> peak_idx])

\* the rows the half-life is read from, and half_life_analysis's last lines
PostPeak_after(frame, peak_idx, column) == ILocFrom(frame, peak_idx + 1, column)
PostPeak(frame, peak_idx, column) == ILocFrom(frame, peak_idx, column)
DefaultBaseline(frame, post_peak, column) == post_peak[Len(post_peak)]
HalfValue(baseline, peak_value) == baseline + Over(peak_value - baseline, 2)
DiffFromHalf(post_peak, half_value) ==
  [i \in 1..Len(post_peak) |-> Abs(post_peak[i] - half_value)]
HalfLife(frame, peak_idx, half_idx) ==
  Over(Loc(frame, half_idx, TimeCol(frame)) - Loc(frame, peak_idx, TimeCol(frame)),
       TimeFactor(TimeCol(frame)))

half_life_analysis(frame, column, baseline) ==
  IF frame = NoData THEN Raise("ValueError")
  ELSE IF Rows(frame) = 0 THEN Raise("ValueError")
  ELSE LET peak_info == peak_analysis(frame, column).returned
           peak_idx  == peak_info.peak_index
           post_peak == PostPeak(frame, peak_idx, column)
           base      == IF baseline = None
                        THEN DefaultBaseline(frame, post_peak, column)
                        ELSE baseline.float
           half_idx  == idxmin(DiffFromHalf(post_peak,
                                            HalfValue(base, peak_info.peak_value)),
                               peak_idx)
       IN IF Len(post_peak) < 3 THEN Return(None)
          ELSE Return(Float(HalfLife(frame, peak_idx, half_idx)))

\* the tables loaded: up to MaxRows samples with values from Levels, sampled
\* every quarter of an hour, carrying the time in hours, in minutes or in
\* both; the shorter ones also with the time running backwards
MaxRows == 4
Levels  == {0, YU, 2 * YU}
QUARTER == YU \div 4
Clock(n, rising) == [i \in 1..n |-> IF rising THEN (i - 1) * QUARTER ELSE (n - i) * QUARTER]
InMinutes(hours) == [i \in 1..Len(hours) |-> hours[i] * SIXTY]
Frame(values, names, rising) ==
  [c \in names \cup {NO2} |->
     IF c = HOURS THEN Clock(Len(values), rising)
     ELSE IF c = MINUTES THEN InMinutes(Clock(Len(values), rising))
     ELSE values]
Series == UNION {[1..k -> Levels] : k \in 0..MaxRows}
Frames ==
  { Frame(values, names, TRUE) :
      values \in Series, names \in {{HOURS}, {MINUTES}, {HOURS, MINUTES}} }
  \cup { Frame(values, {HOURS}, FALSE) : values \in {v \in Series : Len(v) < MaxRows} }
\* the baseline argument: left out, or given
BaselineArgs == {None, Float(0), Float(YU)}

AnalyzerInit ==
  /\ data = NoData
  /\ analysis = NoAnalysis
  /\ NoSimulation
  /\ probe = NoProbe
  /\ NoFitting
  /\ NoService

Analyzed(op, args, r) ==
  analysis' = [op |-> op, args |-> args, raised |-> r.raised, returned |-> r.returned]

\* load_data(dataframe=...): a copy of the table is kept; with neither
\* argument it raises (a file read by read_csv is a table as well)
LoadData(dataframe) ==
  /\ IF dataframe = None
     THEN Analyzed("load_data", <<None>>, Raise("ValueError")) /\ UNCHANGED data
     ELSE Analyzed("load_data", <<dataframe>>, Return(dataframe)) /\ data' = dataframe
  /\ UNCHANGED <<simulation, probe, fitting, service>>

PeakAnalysis ==
  /\ Analyzed("peak_analysis", <<NO2>>, peak_analysis(data, NO2))
  /\ UNCHANGED <<data, simulation, probe, fitting, service>>

HalfLifeAnalysis(baseline) ==
  /\ Analyzed("half_life_analysis", <<NO2, baseline>>, half_life_analysis(data, NO2, baseline))
  /\ UNCHANGED <<data, simulation, probe, fitting, service>>

AnalyzerNext ==
  \/ \E df \in Frames \cup {None} : LoadData(df)
  \/ PeakAnalysis
  \/ \E b \in BaselineArgs : HalfLifeAnalysis(b)
AnalyzerSpec == AnalyzerInit /\ [][AnalyzerNext]_vars

\* the analysed column, its time column, and the calls that returned
Analysed   == data[NO2]
TimeAxis   == data[TimeCol(data)]
PeakReturned == analysis.op = "peak_analysis" /\ analysis.raised = ""
HalfLifeReturned == analysis.op = "half_life_analysis" /\ analysis.raised = ""
\* the row (counted from 1) of the first sample from row p on whose value is
\* nearest to half
NearestFrom(v, p, half) ==
  CHOOSE h \in p..Len(v) :
    \A j \in p..Len(v) :
      /\ Abs(v[h] - half) <= Abs(v[j] - half)
      /\ j < h => Abs(v[h] - half) < Abs(v[j] - half)
Increasing(a) == \A i \in 1..Len(a), j \in 1..Len(a) : i < j => a[i] < a[j]

\* C12: peak_analysis returns the largest value of the column and the time
\* of the same row; of several rows holding the largest value it reports the
\* first, and for a single such row k the time is time[k]
C12_PeakFirstOccurrence ==
  PeakReturned =>
    \E k \in 1..Len(Analysed) :
      /\ \A j \in 1..Len(Analysed) : Analysed[j] <= Analysed[k]
      /\ \A j \in 1..(k - 1) : Analysed[j] < Analysed[k]
      /\ analysis.returned.peak_value = Analysed[k]
      /\ analysis.returned.time_to_peak = TimeAxis[k]
      /\ analysis.returned.time_to_peak \in
           {data[c][k] : c \in DOMAIN data \cap {HOURS, MINUTES}}
\* the largest value is held by two rows, and the first of them is not the
\* first row of the table
C12_Witness ==
  /\ PeakReturned
  /\ \E k \in 2..Len(Analysed), l \in 3..Len(Analysed) :
       /\ k < l
       /\ Analysed[k] = Analysed[l]
       /\ \A j \in 1..Len(Analysed) : Analysed[j] <= Analysed[k]
       /\ Analysed[1] < Analysed[k]
       /\ analysis.returned.time_to_peak = TimeAxis[k]

C14_HalfLifeHours ==
  (HalfLifeReturned /\ analysis.returned # None) =>
    LET p    == IdxMax(Analysed)
        b    == IF analysis.args[2] = None THEN Analysed[Len(Analysed)]
                ELSE analysis.args[2].float
        h    == NearestFrom(Analysed, p, b + Over(Analysed[p] - b, 2))
        took == analysis.returned.float
    IN /\ HOURS \in DOMAIN data => took = data[HOURS][h] - data[HOURS][p]
       /\ MINUTES \in DOMAIN data => took * 60 = data[MINUTES][h] - data[MINUTES][p]
       /\ Increasing(TimeAxis) => took >= 0
\* a table in minutes only, and a half-life of at least a quarter of an hour
C14_Witness ==
  /\ HalfLifeReturned
  /\ analysis.returned # None
  /\ DOMAIN data = {MINUTES, NO2}
  /\ analysis.returned.float >= QUARTER
  /\ TimeAxis[Len(TimeAxis)] >= 15 * YU

\* C15: without a baseline argument the first value of the analysed column
\* is the baseline
C15_FirstValueBaseline ==
  (HalfLifeReturned /\ analysis.args[2] = None /\ analysis.returned # None) =>
    LET p == IdxMax(Analysed)
        b == Analysed[1]
        h == NearestFrom(Analysed, p, b + Over(Analysed[p] - b, 2))
    IN analysis.returned.float = Over(TimeAxis[h] - TimeAxis[p], TimeFactor(TimeCol(data)))

(***************************************************************************)
(* optimization.py: ParameterOptimizer.  A dict is the sequence of its     *)
(* (key, value) items in insertion order.  Experimental tables hold        *)
(* millionths like the analyzer's; the simulator's table gives hours in    *)
(* units of 1/ONE and everything else in millionths.                       *)
(***************************************************************************)
MIN == "Time (min)"
TimeNames == {MINUTES, HOURS, MIN}
\* 'minutes' in name, 'hours' in name, 'Time' in name
HasMinutes(name) == name = MINUTES
HasHours(name)   == name = HOURS
HasTime(name)    == name \in {MINUTES, HOURS, MIN}
\* simulation_df.columns[0] and [1]
SimColumns == <<HOURS, MINUTES>>

Keys(items) == [i \in 1..Len(items) |-> items[i][1]]
RECURSIVE SetAll(_, _)
SetAll(self, items) ==
  IF items = <<>> THEN self
  ELSE SetAll(setattr(self, Head(items)[1], Head(items)[2]), Tail(items))
\* self.simulator.simulate(): the table it returns
ResultsOf(self) == Simulated[Canonical(self)].results_df

\* the experimental times on the axis they are compared on, and that axis
Comparable(x, time_column) ==
  IF HasMinutes(time_column) /\ HasHours(SimColumns[1])
  THEN [axis |-> HOURS, at |-> [i \in 1..Len(x) |-> Over(x[i], SIXTY)]]
  ELSE IF HasHours(time_column) /\ HasMinutes(SimColumns[2])
  THEN [axis |-> MINUTES, at |-> [i \in 1..Len(x) |-> x[i] * SIXTY]]
  ELSE [axis |-> IF HasTime(SimColumns[1]) THEN SimColumns[1] ELSE SimColumns[2],
        at |-> x]
\* simulation_df[sim_time_col].values in millionths
SimAxis(df, axis) ==
  IF axis = HOURS THEN Array([i \in 1..Len(df.hours) |-> df.hours[i] \div 100])
  ELSE df.minutes

\* np.interp(x, xp, fp) for increasing xp
Between(x, xp, fp, j) ==
  fp[j] + Mul(fp[j + 1] - fp[j], Div(x - xp[j], xp[j + 1] - xp[j]))
interp(x, xp, fp) ==
  IF x <= xp[1] THEN fp[1]
  ELSE IF x >= xp[Len(xp)] THEN fp[Len(fp)]
  ELSE Between(x, xp, fp, Cardinality({i \in 1..Len(xp) : xp[i] <= x}))

\* np.sqrt(np.mean((sim_values - exp_values) ** 2)) on millionths
SquaredError(d) == UMul(Abs(d) * 10, Abs(d) * 10)
MeanSquare(sim_values, exp_values) ==
  SumOver(Array([i \in 1..Len(exp_values) |->
                   SquaredError(sim_values[i] - exp_values[i]) \div Len(exp_values)]),
          1..Len(exp_values))
RootOf(mean) ==
  IF mean = 0 THEN 0
  ELSE IF mean < 7 * YU THEN Sqrt(mean * 100) \div 100
  ELSE Sqrt(Min(mean, 6 * ONE)) \div 10
RmseAt(exp_time_values, xp, fp, exp_values) ==
  RootOf(MeanSquare(Array([i \in 1..Len(exp_time_values) |->
                             interp(exp_time_values[i], xp, fp)]),
                    exp_values))
RmseOn(exp_time, df, exp_values) ==
  RmseAt(Array(exp_time.at), SimAxis(df, exp_time.axis), df.plasma, exp_values)
Rmse(df, frame, time_column) ==
  RmseOn(Comparable(frame[time_column], time_column), df, frame[NO2])

\* _objective_function(params, param_names) on the optimizer's simulator:
\* the simulator it leaves, and the RMSE or the exception (the columns of
\* the experimental table are read after the simulation; self.target_column
\* is the name NO2 whenever a table is stored)
Scored(self, frame, time_column) ==
  IF time_column \notin DOMAIN frame \/ NO2 \notin DOMAIN frame
  THEN [simulator |-> self, raised |-> "KeyError", rmse |-> 0]
  ELSE [simulator |-> self, raised |-> "", rmse |-> Rmse(ResultsOf(self), frame, time_column)]
objective_function(self, items, frame, time_column) ==
  Scored(SetAll(self, items), frame, time_column)

\* scipy.optimize.minimize(..., method='L-BFGS-B'): the search evaluates the
\* objective at the initial values first and then at further candidates
\* within the bounds, here every combination of the values in Tried, and
\* returns the first candidate evaluated with the least objective (where
\* the objective does not depend on a parameter, that parameter keeps its
\* initial value)
RECURSIVE Product(_)
Crossed(name, vals, rest) ==
  Array([k \in 1..(Len(vals) * Len(rest)) |->
           << <<name, vals[((k - 1) \div Len(rest)) + 1]>> >>
           \o rest[((k - 1) % Len(rest)) + 1]])
Product(names) ==
  IF names = <<>> THEN << <<>> >>
  ELSE Crossed(Head(names), Tried[Head(names)], Product(Tail(names)))
Candidates(items) == <<items>> \o Product(Keys(items))
Evaluated(run, e, candidate, k) ==
  [simulator   |-> e.simulator,
   raised      |-> e.raised,
   x           |-> IF k = 1 \/ e.rmse < run.fun THEN candidate ELSE run.x,
   fun         |-> IF k = 1 \/ e.rmse < run.fun THEN e.rmse ELSE run.fun,
   evaluations |-> Append(run.evaluations, [candidate |-> candidate, rmse |-> e.rmse])]
RECURSIVE Search(_, _, _, _, _)
Search(run, candidates, k, frame, time_column) ==
  IF k > Len(candidates) \/ run.raised # "" THEN run
  ELSE Search(Evaluated(run,
                        objective_function(run.simulator, candidates[k], frame, time_column),
                        candidates[k], k),
              candidates, k + 1, frame, time_column)
minimize(self, x0, frame, time_column) ==
  Search([simulator |-> self, raised |-> "", x |-> x0, fun |-> 0, evaluations |-> <<>>],
         Candidates(x0), 1, frame, time_column)

DefaultParams ==
  << <<"baseline", YU \div 5>>, <<"peak", 4 * ONE>>, <<"t_peak", ONE \div 2>>,
     <<"half_life", ONE \div 2>> >>
SevenParams ==
  DefaultParams \o << <<"egfr", DefaultEgfr>>, <<"rbc_count", DefaultRbcCount>>,
                      <<"dose", 30 * YU>> >>

\* np.trapz(y, x) over the rows lo..hi, time in hours
RECURSIVE Trapz(_, _, _, _)
Trapz(y, x, lo, hi) ==
  IF hi <= lo THEN 0
  ELSE IF hi = lo + 1 THEN Mul(x[hi] - x[lo], y[hi] + y[lo]) \div 2
  ELSE Trapz(y, x, lo, (lo + hi) \div 2) + Trapz(y, x, (lo + hi) \div 2, hi)
\* the key metrics get_parameter_sensitivity extracts from a table
KeyMetrics(sim_df, peak_idx) ==
  [Peak |-> sim_df.plasma[peak_idx + 1],
   TimeToPeak |-> sim_df.hours[peak_idx + 1],
   AUC |-> Trapz(sim_df.plasma, sim_df.hours, 1, Len(sim_df.plasma))]
Metrics(sim_df) == KeyMetrics(sim_df, idxmax(sim_df.plasma, 0))
Measured == [s \in FitInstances |-> Metrics(Simulated[s].results_df)]

\* base_params[parameter] = value
Put(items, key, value) ==
  IF \E i \in 1..Len(items) : items[i][1] = key
  THEN [i \in 1..Len(items) |-> IF items[i][1] = key THEN <<key, value>> ELSE items[i]]
  ELSE Append(items, <<key, value>>)
\* one pass of the loop of get_parameter_sensitivity, and the loop from the
\* k-th value on
Swept_prepended(self, run, parameter, value) ==
  [simulator   |-> self,
   records     |-> <<[Parameter |-> parameter, Value |-> value]
                     @@ Measured[Canonical(self)]>> \o run.records,
   simulations |-> Append(run.simulations, ResultsOf(self))]
Swept(self, run, parameter, value) ==
  [simulator   |-> self,
   records     |-> Append(run.records,
                          [Parameter |-> parameter, Value |-> value]
                          @@ Measured[Canonical(self)]),
   simulations |-> Append(run.simulations, ResultsOf(self))]
RECURSIVE Sweep(_, _, _, _, _)
Sweep(run, base_params, parameter, values, k) ==
  IF k > Len(values) THEN run
  ELSE Sweep(Swept(SetAll(run.simulator, Put(base_params, parameter, values[k])),
                   run, parameter, values[k]),
             Put(base_params, parameter, values[k]), parameter, values, k + 1)
FixedParams(self, fixed_params) ==
  IF fixed_params = <<>> /\ self.best_params # <<>> THEN self.best_params
  ELSE IF fixed_params = <<>> THEN SevenParams
  ELSE fixed_params
get_parameter_sensitivity(self, parameter, values, fixed_params) ==
  Sweep([simulator |-> self.simulator, records |-> <<>>, simulations |-> <<>>],
        FixedParams(self, fixed_params), parameter, values, 1)

\* experimental data: the noise-free plasma nitrite of a simulator at a few
\* of its rows, with the time in minutes under the name 'Time (minutes)' or
\* 'Time (min)', or in hours under 'Time (hours)'
SampleRows == <<1, 7, 31, 91, 181, 360>>
Sample(df, name) ==
  (name :> Array([i \in 1..Len(SampleRows) |->
                    IF name = HOURS THEN df.hours[SampleRows[i]] \div 100
                    ELSE df.minutes[SampleRows[i]]]))
  @@ (NO2 :> Array([i \in 1..Len(SampleRows) |-> df.plasma[SampleRows[i]]]))
Experiment(known, name) == Sample(Simulated[known].results_df, name)
Experiments ==
  [known : {DefaultSimulator}, name : TimeNames]
  \cup [known : {[DefaultSimulator EXCEPT !.baseline = Tried.baseline[2]]}, name : {MINUTES}]
Loadable == [e \in Experiments |-> Experiment(e.known, e.name)]
\* the arguments of optimize() and of get_parameter_sensitivity()
ParamsToOptimize == {<<>>, << <<"egfr", DefaultEgfr>> >>}
SweptParameters == {"baseline", "egfr", "rbc_count"}
SweptValues(parameter) ==
  {<<>>, <<Tried[parameter][2]>>, <<Tried[parameter][1], Tried[parameter][2]>>}

OptimizerInit ==
  /\ NoFitting
  /\ NoService
  /\ NoSimulation
  /\ probe = NoProbe
  /\ data = NoData
  /\ analysis = NoAnalysis

Called(op, args, raised, returned, evaluations) ==
  fit' = [op |-> op, args |-> args, raised |-> raised, returned |-> returned,
          evaluations |-> evaluations]

ConstructOptimizer ==
  /\ optimizer' = NewOptimizer
  /\ fit' = NoFit
  /\ UNCHANGED <<simulation, probe, analyzer, service>>

\* load_data(dataframe=..., time_column=..., target_column=...): without a
\* table it raises at once; with one, the table and the two names are
\* stored before the columns are looked for
Missing_never(frame, column) == FALSE
Missing(frame, column) == column \notin DOMAIN frame
OptimizerLoadData(dataframe, time_column, target_column) ==
  /\ IF dataframe = None
     THEN /\ UNCHANGED optimizer
          /\ Called("load_data", <<dataframe, time_column, target_column>>,
                    "ValueError", None, <<>>)
     ELSE /\ optimizer' = [optimizer EXCEPT !.experimental_data = dataframe,
                                            !.time_column = time_column,
                                            !.target_column = target_column]
          /\ IF Missing(dataframe, time_column) \/ Missing(dataframe, target_column)
             THEN Called("load_data", <<dataframe, time_column, target_column>>,
                         "ValueError", None, <<>>)
             ELSE Called("load_data", <<dataframe, time_column, target_column>>,
                         "", dataframe, <<>>)
  /\ UNCHANGED <<simulation, probe, analyzer, service>>

\* optimize(params_to_optimize): the search, then the best parameters are
\* set on the simulator and simulated once more
Adopted_skipped(self, best_params) == self
\* for param_name, value in self.best_params.items(): setattr(...)
Adopted(self, best_params) == SetAll(self, best_params)
Optimized(params_to_optimize, x0, result) ==
  /\ IF result.raised # ""
     THEN /\ optimizer' = [optimizer EXCEPT !.simulator = result.simulator]
          /\ Called("optimize", <<params_to_optimize>>, result.raised, None,
                    result.evaluations)
     ELSE /\ optimizer' = [optimizer EXCEPT
                             !.simulator = Adopted(result.simulator, result.x),
                             !.best_params = result.x,
                             !.best_simulation = ResultsOf(Adopted(result.simulator, result.x))]
          /\ Called("optimize", <<params_to_optimize>>, "",
                    [best_parameters |-> result.x, rmse |-> result.fun],
                    result.evaluations)
  /\ UNCHANGED <<simulation, probe, analyzer, service>>
Optimizing(params_to_optimize, x0) ==
  Optimized(params_to_optimize, x0,
            minimize(optimizer.simulator, x0, optimizer.experimental_data,
                     optimizer.time_column))
Optimize(params_to_optimize) ==
  IF optimizer.experimental_data = None
  THEN /\ Called("optimize", <<params_to_optimize>>, "ValueError", None, <<>>)
       /\ UNCHANGED <<optimizer, simulation, probe, analyzer, service>>
  ELSE Optimizing(params_to_optimize,
                  IF params_to_optimize = <<>> THEN DefaultParams ELSE params_to_optimize)

SensitivityDone(parameter, values, fixed_params, run) ==
  /\ optimizer' = [optimizer EXCEPT !.simulator = run.simulator]
  /\ Called("get_parameter_sensitivity", <<parameter, values, fixed_params>>, "",
            [records |-> run.records, simulations |-> run.simulations], <<>>)
  /\ UNCHANGED <<simulation, probe, analyzer, service>>
GetParameterSensitivity(parameter, values, fixed_params) ==
  SensitivityDone(parameter, values, fixed_params,
                  get_parameter_sensitivity(optimizer, parameter, values, fixed_params))

OptimizerNext ==
  \/ ConstructOptimizer
  \/ \E e \in Experiments : \E n \in {e.name, MINUTES} : OptimizerLoadData(Loadable[e], n, NO2)
  \/ \E p \in ParamsToOptimize : Optimize(p)
  \/ \E p \in SweptParameters, f \in {<<>>, SevenParams} :
       \E v \in SweptValues(p) : GetParameterSensitivity(p, v, f)
OptimizerSpec == OptimizerInit /\ [][OptimizerNext]_vars

\* the optimizer as its data is loaded: tables with and without the target
\* column, under every name for the time column, and no table at all
Untargeted(frame) ==
  [c \in DOMAIN frame \ {NO2} |-> frame[c]] @@ ("Nitrite (uM)" :> frame[NO2])
LoaderNext ==
  \/ ConstructOptimizer
  \/ \E e \in Experiments : \E d \in {Loadable[e], Untargeted(Loadable[e])} :
       \E n \in TimeNames : OptimizerLoadData(d, n, NO2)
  \/ \E n \in TimeNames : OptimizerLoadData(None, n, NO2)
  \/ \E p \in ParamsToOptimize : Optimize(p)
LoaderSpec == OptimizerInit /\ [][LoaderNext]_vars

\* the optimizer used for sensitivity analysis: sweeps over the dose too,
\* before and after a fit to the data of a subject of baseline 0.3
SensitivityNext ==
  \/ OptimizerLoadData(Loadable[[known |-> [DefaultSimulator EXCEPT !.baseline = Tried.baseline[2]],
                                 name |-> MINUTES]], MINUTES, NO2)
  \/ \E p \in ParamsToOptimize : Optimize(p)
  \/ \E p \in SweptParameters \cup {"dose"}, f \in {<<>>, SevenParams} :
       \E v \in SweptValues(p) : GetParameterSensitivity(p, v, f)
SensitivitySpec == OptimizerInit /\ [][SensitivityNext]_vars

\* NODynamicsSimulator(**params): a new simulator given these arguments
Fresh(items) ==
  construct(SetAll(Args(YU \div 5, 30 * YU, IR, DefaultTMax, DefaultPoints, <<>>), items))
OptimizeReturned == fit.op = "optimize" /\ fit.raised = ""
SweepReturned == fit.op = "get_parameter_sensitivity" /\ fit.raised = ""

\* C16: every objective evaluation of optimize() gives its candidate the
\* RMSE that NODynamicsSimulator(**candidate).simulate() has against the
\* loaded data, whatever was evaluated or set before
C16_ScoredAsFresh ==
  OptimizeReturned =>
    \A k \in 1..Len(fit.evaluations) :
      fit.evaluations[k].rmse =
        Rmse(ResultsOf(Fresh(fit.evaluations[k].candidate)),
             optimizer.experimental_data, optimizer.time_column)

\* C17: on data that simulate() produced without noise from known
\* parameters, optimize() returns those parameters for every parameter it
\* optimised, with an RMSE of about 0
KnownParams ==
  LET grid == Product(Keys(DefaultParams)) IN {grid[k] : k \in 1..Len(grid)}
C17_RecoversKnown ==
  OptimizeReturned =>
    \A known \in KnownParams :
      ( /\ Keys(known) = Keys(fit.returned.best_parameters)
        /\ optimizer.time_column \in {MINUTES, HOURS}
        /\ optimizer.experimental_data
             = Experiment(Canonical(Fresh(known)), optimizer.time_column) )
      => /\ fit.returned.best_parameters = known
         /\ fit.returned.rmse <= YU \div 1000

\* C18: every evaluation compares each experimental sample with the
\* simulated value at the same physical time: times in minutes are compared
\* as minutes whatever their column is called; data whose unit cannot be
\* told is rejected, never read as hours
InMinutesColumn(frame, time_column) ==
  (MINUTES :> frame[time_column]) @@ (NO2 :> frame[NO2])
C18_SamePhysicalTime ==
  (fit.op = "optimize" /\ optimizer.experimental_data # None
     /\ optimizer.time_column \in {MINUTES, MIN}
     /\ optimizer.time_column \in DOMAIN optimizer.experimental_data) =>
    \/ fit.raised # ""
    \/ \A k \in 1..Len(fit.evaluations) :
         fit.evaluations[k].rmse =
           Rmse(ResultsOf(SetAll(optimizer.simulator, fit.evaluations[k].candidate)),
                InMinutesColumn(optimizer.experimental_data, optimizer.time_column),
                MINUTES)

\* C19: a sweep returns one record and one series for each element of
\* values, in that order; record i names the parameter and values[i], and
\* its Peak, Time to Peak and AUC are those of series i; no values, no
\* records
C19_OneRecordPerValue ==
  SweepReturned =>
    LET values == fit.args[2]
        got    == fit.returned
    IN /\ Len(got.records) = Len(values)
       /\ Len(got.simulations) = Len(values)
       /\ \A i \in 1..Len(values) :
            /\ got.records[i].Parameter = fit.args[1]
            /\ got.records[i].Value = values[i]
            /\ got.records[i].Peak = Metrics(got.simulations[i]).Peak
            /\ got.records[i]["TimeToPeak"] = Metrics(got.simulations[i])["TimeToPeak"]
            /\ got.records[i].AUC = Metrics(got.simulations[i]).AUC
            /\ \A j \in 1..Len(got.simulations[i].plasma) :
                 got.simulations[i].plasma[j] <= got.records[i].Peak
\* two values were swept and their series have different peaks
C19_Witness ==
  /\ SweepReturned
  /\ Len(fit.args[2]) = 2
  /\ Len(fit.returned.records) = 2
  /\ fit.returned.records[1].Value # fit.returned.records[2].Value
  /\ fit.returned.records[1].Peak # fit.returned.records[2].Peak
  /\ fit.returned.simulations[1] # fit.returned.simulations[2]

\* C20: with all seven parameters named in fixed_params, the series of each
\* swept value is that of a new simulator given the fixed values with the
\* swept parameter replaced; with fixed_params left out the fixed values
\* are the last optimised set, or the documented defaults if none
C20_SweptAsFresh ==
  SweepReturned =>
    LET parameter == fit.args[1]
        values    == fit.args[2]
        fixed     == IF fit.args[3] # <<>> THEN fit.args[3]
                     ELSE IF optimizer.best_params # <<>> THEN optimizer.best_params
                     ELSE SevenParams
    IN /\ fit.args[3] = SevenParams =>
            \A i \in 1..Len(values) :
              fit.returned.simulations[i]
                = ResultsOf(Fresh(Put(fixed, parameter, values[i])))
       /\ values # <<>> =>
            \A k \in 1..Len(fixed) :
              fixed[k][1] # parameter => optimizer.simulator[fixed[k][1]] = fixed[k][2]
\* C21: a sweep over the dose returns Peak values ordered as the doses
\* swept: where one swept dose is not larger than another, the plasma
\* maximum in the record at its place is not larger either
C21_PeakFollowsDose ==
  (SweepReturned /\ fit.args[1] = "dose") =>
    \A i, j \in 1..Len(fit.args[2]) :
      fit.args[2][i] <= fit.args[2][j] =>
        fit.returned.records[i].Peak <= fit.returned.records[j].Peak
\* 30 mg and then 20 mg were swept and the peaks differ
C21_Witness ==
  /\ SweepReturned
  /\ fit.args[1] = "dose"
  /\ fit.args[2] = <<30 * YU, 20 * YU>>
  /\ fit.returned.records[1].Peak > fit.returned.records[2].Peak

\* C23: load_data raises when it is given no table and when the time or the
\* target column is not in the table, and only then; optimize raises when
\* no data is loaded; a call that raises returns nothing and evaluates no
\* objective
C23_RaisesWithoutData ==
  /\ fit.op = "load_data" =>
       /\ fit.raised = "ValueError" <=>
            \/ fit.args[1] = None
            \/ fit.args[2] \notin DOMAIN fit.args[1]
            \/ fit.args[3] \notin DOMAIN fit.args[1]
       /\ fit.raised = "" => fit.returned = fit.args[1]
       /\ fit.raised # "" => fit.returned = None
  /\ (fit.op = "optimize" /\ optimizer.experimental_data = None) =>
       /\ fit.raised = "ValueError"
       /\ fit.returned = None
       /\ fit.evaluations = <<>>
\* a table with its time column and without the target column was refused
C23_Witness ==
  /\ fit.op = "load_data"
  /\ fit.raised = "ValueError"
  /\ fit.args[1] # None
  /\ fit.args[2] \in DOMAIN fit.args[1]
  /\ fit.args[3] \notin DOMAIN fit.args[1]

\* C28: a load_data call that raises leaves experimental_data, time_column
\* and target_column as they were before the call
C28_FailedLoadChangesNothing ==
  [][(fit'.op = "load_data" /\ fit'.raised = "ValueError") =>
       /\ optimizer'.experimental_data = optimizer.experimental_data
       /\ optimizer'.time_column = optimizer.time_column
       /\ optimizer'.target_column = optimizer.target_column]_vars

\* C25: for a 30 mg dose and every other argument at its default, the
\* extended-release run has more samples with plasma nitrite above 0.3 than
\* the immediate-release run, and a lower plasma maximum
Above(a, level) == Cardinality({i \in 1..Len(a) : a[i] > level})
ExtendedRelease ==
  construct(Args(YU \div 5, 30 * YU, ER, DefaultTMax, DefaultPoints, <<>>))
C25_LongerAndLower ==
  (simulator = ExtendedRelease /\ call.op = "simulate" /\ Returned) =>
    /\ Above(outputs.results_df.plasma, (3 * YU) \div 10)
         > Above(Simulated[DefaultSimulator].results_df.plasma, (3 * YU) \div 10)
    /\ SeqMax(outputs.results_df.plasma)
         < SeqMax(Simulated[DefaultSimulator].results_df.plasma)
C27_ExactMaxima ==
  (Returned /\ SeqMax(outputs.results_df.rbc) > 0) =>
    /\ SeqMax(outputs.cgmp_levels) = 10 * YU
    /\ SeqMax(outputs.vasodilation) = 150 * YU
    /\ SeqMax(outputs.results_df.cgmp) = 10 * YU
    /\ SeqMax(outputs.results_df.vasodilation) = 150 * YU
    /\ 100 * YU <= SeqMax(outputs.vasodilation) /\ SeqMax(outputs.vasodilation) <= 200 * YU
\* a run from a negative baseline, its RBC nitrite below 0 at first and
\* above 0 later
C27_Witness ==
  /\ Returned
  /\ simulator.baseline < 0
  /\ outputs.results_df.rbc[1] < 0
  /\ SeqMax(outputs.results_df.rbc) > 0

\* C29: the records a sweep returns depend on its arguments alone (and on
\* best_params where fixed_params is left out): they are the records the
\* same call returns on an optimizer whose simulator no earlier call has
\* touched
C29_RecordsOfArgumentsAlone ==
  SweepReturned =>
    fit.returned.records
      = get_parameter_sensitivity([best_params |-> optimizer.best_params,
                                   simulator |-> DefaultSimulator],
                                  fit.args[1], fit.args[2], fit.args[3]).records

\* C30: after optimize() has returned, every optimised attribute of the
\* optimizer's simulator has its value in best_parameters, whatever
\* candidate was evaluated last, and best_simulation is the table the
\* simulator returns with those values
C30_BestAdopted ==
  OptimizeReturned =>
    /\ optimizer.best_params = fit.returned.best_parameters
    /\ \A i \in 1..Len(fit.returned.best_parameters) :
         optimizer.simulator[fit.returned.best_parameters[i][1]]
           = fit.returned.best_parameters[i][2]
    /\ optimizer.best_simulation = Simulated[Canonical(optimizer.simulator)].results_df
\* the candidate evaluated last is not the best one
C30_Witness ==
  /\ OptimizeReturned
  /\ Len(fit.evaluations) > 1
  /\ fit.evaluations[Len(fit.evaluations)].candidate # fit.returned.best_parameters
  /\ fit.evaluations[Len(fit.evaluations)].rmse > fit.returned.rmse

(***************************************************************************)
(* routes/api_routes.py: batch_simulate, the handler of POST               *)
(* /api/batch-simulate.  The request body is a JSON object: a dict whose   *)
(* values are lists (List) or numbers (Number).  Doses are in mg, ages in  *)
(* years, weights in kg, baselines in millionths.                          *)
(***************************************************************************)
List(s)   == [list |-> s]
Number(n) == [number |-> n]
\* data.get(key, default), data being the request body
Get(body, key, default) == IF key \in DOMAIN body THEN body[key] ELSE default
\* isinstance(r, list)
IsList(r) == "list" \in DOMAIN r

DefaultDoseRange     == List(<<15, 30, 45, 60>>)
DefaultAgeRange      == List(<<30, 50, 70>>)
DefaultWeightRange   == List(<<60, 75, 90>>)
DefaultBaselineRange == List(<<YU \div 10, YU \div 5, (3 * YU) \div 10>>)
max_simulations == 50
BatchPoints == 361

\* a size check that finds no request too large
TooLarge_never(total_combinations) == FALSE
\* if total_combinations > max_simulations
TooLarge(total_combinations) == total_combinations > max_simulations

\* NODynamicsSimulator(baseline=..., peak=peak_value, t_peak=0.5,
\* half_life=half_life_hours, t_max=6, points=361, egfr=..., dose=dose)
BatchSimulator(dose, age, weight, baseline) ==
  construct([baseline |-> baseline,
             peak |-> baseline * (ONE \div YU) + Div(dose * 10, weight),
             t_peak |-> ONE \div 2,
             half_life |-> Div(300 + age, 600),
             t_max |-> 6 * ONE, points |-> BatchPoints,
             egfr |-> IF age > 40 THEN 90 - ((age - 40) \div 2) ELSE 90,
             rbc_count |-> DefaultRbcCount, dose |-> dose * YU,
             additional_doses |-> <<>>, formulation |-> IR])
\* one pass of the innermost loop: peak_value divides by weight * 0.1
\* before the simulator is made; the metrics stored with the combination
\* are those of the simulator's table
Combined(run, dose, age, weight, baseline) ==
  IF weight = 0 THEN [run EXCEPT !.raised = "ZeroDivisionError"]
  ELSE [run EXCEPT !.simulations = Append(@, BatchSimulator(dose, age, weight, baseline)),
                   !.batch_results = Append(@, [dose |-> dose, age |-> age,
                                                weight |-> weight,
                                                baseline |-> baseline])]
\* the four nested loops, from the k-th combination on (k counts from 0,
\* the baseline running fastest, then the weight, the age and the dose)
RECURSIVE Combinations(_, _, _, _, _, _)
Combinations(run, doses, ages, weights, baselines, k) ==
  IF k >= Len(doses) * Len(ages) * Len(weights) * Len(baselines) \/ run.raised # ""
  THEN run
  ELSE Combinations(
         Combined(run,
                  doses[(k \div (Len(baselines) * Len(weights) * Len(ages))) + 1],
                  ages[((k \div (Len(baselines) * Len(weights))) % Len(ages)) + 1],
                  weights[((k \div Len(baselines)) % Len(weights)) + 1],
                  baselines[(k % Len(baselines)) + 1]),
         doses, ages, weights, baselines, k + 1)
\* the response once the loops are done: an exception anywhere in the body
\* is answered with 500; results_df.groupby('dose') raises KeyError when
\* there is no result at all
Summarised(run) ==
  IF run.raised # ""
  THEN [status |-> 500, error |-> run.raised, simulations |-> run.simulations,
        results |-> <<>>]
  ELSE IF run.batch_results = <<>>
  THEN [status |-> 500, error |-> "KeyError", simulations |-> run.simulations,
        results |-> <<>>]
  ELSE [status |-> 200, error |-> "", simulations |-> run.simulations,
        results |-> run.batch_results]
Ranged(dose_range, age_range, weight_range, baseline_range) ==
  IF ~ (\A r \in {dose_range, age_range, weight_range, baseline_range} : IsList(r))
  THEN [status |-> 400, error |-> "Parameter ranges must be lists",
        simulations |-> <<>>, results |-> <<>>]
  ELSE IF TooLarge(Len(dose_range.list) * Len(age_range.list)
                   * Len(weight_range.list) * Len(baseline_range.list))
  THEN [status |-> 400, error |-> "Batch size too large", simulations |-> <<>>,
        results |-> <<>>]
  ELSE Summarised(Combinations([raised |-> "", simulations |-> <<>>,
                                batch_results |-> <<>>],
                               dose_range.list, age_range.list, weight_range.list,
                               baseline_range.list, 0))
batch_simulate(body) ==
  Ranged(Get(body, "dose_range", DefaultDoseRange),
         Get(body, "age_range", DefaultAgeRange),
         Get(body, "weight_range", DefaultWeightRange),
         Get(body, "baseline_range", DefaultBaselineRange))

\* request bodies: each range left out, or given as a list (empty, of one
\* or of more values, a weight of 0 among them) or as a bare number
Given(key, values) == {<<>>} \cup {(key :> v) : v \in values}
Requests ==
  { d @@ a @@ w @@ b :
      d \in Given("dose_range", {List(<<>>), List(<<30>>), List(<<20, 30>>), Number(30)}),
      a \in Given("age_range", {List(<<50>>), List(<<30, 50, 70, 80>>)}),
      w \in Given("weight_range", {List(<<75>>), List(<<60, 0>>), List(<<75, 90>>)}),
      b \in Given("baseline_range", {List(<<YU \div 10, (3 * YU) \div 10>>)}) }

BatchInit ==
  /\ NoService
  /\ NoSimulation
  /\ probe = NoProbe
  /\ data = NoData
  /\ analysis = NoAnalysis
  /\ NoFitting

BatchSimulate(request) ==
  /\ batch' = [request |-> request] @@ batch_simulate(request)
  /\ UNCHANGED <<simulation, probe, analyzer, fitting, pool>>
BatchNext == \E request \in Requests : BatchSimulate(request)
BatchSpec == BatchInit /\ [][BatchNext]_vars

\* the ranges of the last request and the product of their lengths
Served == batch.status # 0
RangeOf(key, default) == Get(batch.request, key, default)
AllLists ==
  /\ IsList(RangeOf("dose_range", DefaultDoseRange))
  /\ IsList(RangeOf("age_range", DefaultAgeRange))
  /\ IsList(RangeOf("weight_range", DefaultWeightRange))
  /\ IsList(RangeOf("baseline_range", DefaultBaselineRange))
Requested ==
  Len(RangeOf("dose_range", DefaultDoseRange).list)
  * Len(RangeOf("age_range", DefaultAgeRange).list)
  * Len(RangeOf("weight_range", DefaultWeightRange).list)
  * Len(RangeOf("baseline_range", DefaultBaselineRange).list)
ZeroWeight ==
  \E i \in DOMAIN RangeOf("weight_range", DefaultWeightRange).list :
    RangeOf("weight_range", DefaultWeightRange).list[i] = 0

Callers == {1, 2}
\* every caller given the first object
Own_shared(i) == 1
\* the object caller i calls: its own
Own(i) == i

PoolArguments ==
  { Args(YU \div 5, 30 * YU, IR, DefaultTMax, DefaultPoints, <<>>),
    Args(YU \div 5, 30 * YU, ER, DefaultTMax, CoarsePoints, <<>>) }
Idle == [pc |-> "idle", op |-> "", oxygen_saturation |-> 0, entry |-> None,
         original_k_rbc |-> 0, results |-> None, raised |-> "", returned |-> None]
ConcurrentInit ==
  /\ \E a, b \in PoolArguments :
       pool = [objects |-> <<[self |-> construct(a), outputs |-> NoOutputs],
                             [self |-> construct(b), outputs |-> NoOutputs]>>,
               callers |-> <<Idle, Idle>>]
  /\ batch = NoBatch
  /\ NoSimulation
  /\ probe = NoProbe
  /\ data = NoData
  /\ analysis = NoAnalysis
  /\ NoFitting

Self(i) == pool.objects[Own(i)].self
Stepped_to(i, caller, object) ==
  /\ pool' = [pool EXCEPT !.callers[i] = caller, !.objects[Own(i)] = object]
  /\ UNCHANGED <<simulation, probe, analyzer, fitting, batch>>

\* caller i begins simulate() or simulate_hypoxia(oxygen_saturation)
Enter(i, op, oxygen_saturation) ==
  /\ pool.callers[i].pc = "idle"
  /\ Stepped_to(i, [Idle EXCEPT !.pc = IF op = "simulate" THEN "simulate" ELSE "store",
                                !.op = op, !.oxygen_saturation = oxygen_saturation,
                                !.entry = Self(i)],
                pool.objects[Own(i)])
\* original_k_rbc = self.k_rbc
Store(i) ==
  /\ pool.callers[i].pc = "store"
  /\ Stepped_to(i, [pool.callers[i] EXCEPT !.pc = "set", !.original_k_rbc = Self(i).k_rbc],
                pool.objects[Own(i)])
\* self.k_rbc = self._rbc_scavenging_rate(self.rbc_count, oxygen_saturation)
SetHypoxic(i) ==
  /\ pool.callers[i].pc = "set"
  /\ Stepped_to(i, [pool.callers[i] EXCEPT !.pc = "simulate"],
                [pool.objects[Own(i)] EXCEPT
                   !.self.k_rbc = rbc_scavenging_rate(Self(i).rbc_count,
                                                      pool.callers[i].oxygen_saturation)])
\* self.simulate(): returned to the caller of simulate(), kept in results by
\* simulate_hypoxia; an exception ends either call
Simulating(i, r) ==
  Stepped_to(i,
             IF r.raised # ""
             THEN [pool.callers[i] EXCEPT !.pc = "idle", !.raised = r.raised]
             ELSE IF pool.callers[i].op = "simulate"
             THEN [pool.callers[i] EXCEPT !.pc = "idle", !.returned = r.results_df]
             ELSE [pool.callers[i] EXCEPT !.pc = "restore", !.results = r.results_df],
             [pool.objects[Own(i)] EXCEPT !.outputs = Assigned(@, r)])
RunSimulate(i) ==
  /\ pool.callers[i].pc = "simulate"
  /\ Simulating(i, Simulated[Self(i)])
\* self.k_rbc = original_k_rbc; return results
Restore(i) ==
  /\ pool.callers[i].pc = "restore"
  /\ Stepped_to(i, [pool.callers[i] EXCEPT !.pc = "idle",
                                           !.returned = pool.callers[i].results],
                [pool.objects[Own(i)] EXCEPT !.self.k_rbc = pool.callers[i].original_k_rbc])

ConcurrentNext ==
  \E i \in Callers :
    \/ Enter(i, "simulate", 0)
    \/ \E o \in Saturations : Enter(i, "simulate_hypoxia", o)
    \/ Store(i)
    \/ SetHypoxic(i)
    \/ RunSimulate(i)
    \/ Restore(i)
ConcurrentSpec == ConcurrentInit /\ [][ConcurrentNext]_vars

\* what the call returns when nothing else runs: the table of the object as
\* it was when the call began, under the call's k_rbc
Alone(caller) ==
  IF caller.op = "simulate" THEN Simulated[caller.entry].results_df
  ELSE Simulated[[caller.entry EXCEPT
                    !.k_rbc = rbc_scavenging_rate(caller.entry.rbc_count,
                                                  caller.oxygen_saturation)]].results_df
HasReturned(caller) == caller.pc = "idle" /\ caller.op # "" /\ caller.raised = ""

\* C24: however the calls of callers on objects of their own interleave,
\* each call returns the series it returns when run alone
C24_AsWhenRunAlone ==
  \A i \in Callers :
    HasReturned(pool.callers[i]) => pool.callers[i].returned = Alone(pool.callers[i])
\* two objects of equal fields: one caller has returned from a hypoxia call
\* and the other from simulate(), and their tables differ
C24_Witness ==
  /\ HasReturned(pool.callers[1])
  /\ pool.callers[1].op = "simulate_hypoxia"
  /\ pool.callers[1].oxygen_saturation # NORMOXIA
  /\ HasReturned(pool.callers[2])
  /\ pool.callers[2].op = "simulate"
  /\ pool.objects[1].outputs.results_df # pool.objects[2].outputs.results_df
  /\ pool.objects[1].self = pool.objects[2].self

====
